---- MODULE Spec2Model ----
(***************************************************************************)
(* A model of the banking event dispatcher of task_2:                      *)
(*   event_manager.py  BankingEventManager (the Dispatcher)                *)
(*   producer.py       BankingEventProducer                                *)
(*   consumer_pull.py  BankingConsumerPull                                 *)
(*   consumer_push.py  BankingConsumerPush                                 *)
(*   main.py           run_pull_model / run_push_model                     *)
(*                                                                         *)
(* An event is modelled by its event_id (a non-empty dict in the source).  *)
(* Every thread of the program is a process with a program counter; one    *)
(* action is one atomic step of the source (a queue operation under the    *)
(* queue's mutex, a block under a lock, a callback invocation).            *)
(*                                                                         *)
(* Specifications:                                                         *)
(*   SpecQueue      clients of add_event / add_events_batch / get_event /  *)
(*                  get_events_batch on a bounded or unbounded queue       *)
(*   FairSpecQueue  SpecQueue with a consumer that keeps calling           *)
(*   SpecPull       run_pull_model: producer thread, consumer thread, stop *)
(*   FairSpecPull   SpecPull with both threads scheduled                   *)
(*   SpecPush       push_event / push_events_batch on registered callbacks *)
(*                  while callbacks are registered and unregistered        *)
(*   SpecPushConsumer  run_push_model: register, pushes, finish()          *)
(*   SpecPushThreads   SpecPush's manager with two pushing threads         *)
(*   SpecJoin       add_event, get_event, task_done and join on one queue  *)
(*   FairSpecJoin   SpecJoin with the thread in join() scheduled           *)
(*   SpecMain       main(): a run of the PULL model or of the PUSH model   *)
(*   SpecProducer   produce_events in either mode, any batch_size          *)
(*   SpecStop       add_event, get_event and pushes around the manager's   *)
(*                  stop()                                                 *)
(*   SpecRegistry   register / unregister calls, then pushes               *)
(*   SpecCounters   add_event, task_done and pushes on one manager         *)
(***************************************************************************)
EXTENDS Integers, Sequences, FiniteSets, TLC

\* ------------------------------------------------------------------ bounds
\* events a producer makes
MaxEvents == 4
\* batch_size, and events in one add_events_batch / push_events_batch call
MaxBatch == 2
\* max_queue_size of a bounded queue
MaxQueue == 1
\* push_event / push_events_batch calls of one thread
MaxPush == 1
\* the n of a task_done(n) call
MaxAck == 2
\* registrations a manager holds, both registries together
MaxReg == 2
\* register / unregister calls made while pushes are in flight
MaxRegOps == 1

\* ------------------------------------------------------------------ state
VARIABLES
    \* BankingEventManager
    events,                  \* self.events: the queue's contents, head first
    max_queue_size,          \* the constructor's max_queue_size (0 = unlimited)
    total_events_received,   \* self._total_events_received
    total_events_queued,     \* self._total_events_queued
    total_events_pushed,     \* self._total_events_pushed
    \* client threads of the queue
    prod,                    \* per producer thread: its position in add_event / add_events_batch
    cons,                    \* the consumer thread: its position in get_event / get_events_batch
    next_id,                 \* the next fresh event_id
    \* history
    enq,                     \* every event put into the queue, in put order
    deq,                     \* every event returned to the consumer, in return order
    \* BankingEventProducer, BankingConsumerPull and their Sink
    bp,                      \* the producer object and its position in produce_events
    pull,                    \* the pull consumer object and its position in start_consuming
    sink_calls,              \* every _bulk_insert call that stored its batch, in call order
    sink_ok,                 \* whether the Sink never fails
    stop_called,             \* whether the consumer's stop() has been called
    enq_at_stop,             \* the events enqueued before the first stop() call
    \* BankingEventManager, PUSH path
    push_event_callbacks,    \* self._push_event_callbacks
    push_batch_callbacks,    \* self._push_batch_callbacks
    push_lock,               \* self._push_lock: the thread that holds it, or Free
    push_executor,           \* whether self._push_executor is set (push_executor_workers > 0)
    pool_queue,              \* the executor's submitted tasks that no worker has taken yet
    th,                      \* per thread: its position in push_event / push_events_batch,
                             \* in a callback, in register / unregister
    pushes,                  \* per push call, in call order: its events and its local variables
    calls,                   \* every callback invocation, in the order they began
    regops,                  \* the number of register / unregister calls made
    \* BankingConsumerPush
    \* history of task_done
    decrements,              \* the number of times task_done has decremented the queued counter
    \* history of register / unregister
    reg,                     \* the last registry call a client made, and the registries before it
    \* stop
    stopped,                 \* self._stopped: whether the Event is set
    \* task_done and join
    acked,                   \* the Queue.task_done() calls that succeeded
    td,                      \* the thread that acknowledges: its position in task_done
    jn,                      \* the thread that drains: its position in join
    pushc,                   \* the consumer: batch_size, event_batch, batch_lock (its holder
                             \* or Free), events_processed; where finish() is; the
                             \* _bulk_insert calls that raised
    pushed_at_finish         \* the events of the pushes to the consumer that had returned
                             \* when finish() was called

dvars == <<events, max_queue_size, total_events_received, total_events_queued,
           total_events_pushed>>
qvars == <<prod, cons, next_id, enq, deq>>
pullvars == <<bp, pull, sink_calls, sink_ok, stop_called, enq_at_stop>>
pcvars == <<pushc, pushed_at_finish>>
pushvars == <<push_event_callbacks, push_batch_callbacks, push_lock, push_executor,
              pool_queue, th, pushes, calls, regops, pcvars>>
jvars == <<acked, td, jn, stopped, reg, decrements>>
vars == <<dvars, qvars, pullvars, pushvars, jvars>>

\* ------------------------------------------------------------------ values
None == -1

Producers == {"p1"}

SeqFromTo(a, n) == [i \in 1..n |-> a + i - 1]

Range(s) == {s[i] : i \in 1..Len(s)}

Count(s, e) == Cardinality({i \in 1..Len(s) : s[i] = e})

\* the events of a sequence of Sink calls, in the order they were stored
RECURSIVE Stored(_)
Stored(cs) ==
    IF cs = <<>> THEN <<>> ELSE Stored(SubSeq(cs, 1, Len(cs) - 1)) \o cs[Len(cs)].batch

\* ------------------------------------------------------------------ queue.Queue
\* put()/put_nowait() find room when the queue is unbounded or below maxsize
HasRoom == max_queue_size = 0 \/ Len(events) < max_queue_size

\* Queue._put: append at the tail
QueuePut(q, e) == Append(q, e)

QueueGetLifo(q) == <<q[Len(q)], SubSeq(q, 1, Len(q) - 1)>>

\* Queue._get (deque.popleft): the element a get() returns and what it leaves
QueueGet(q) == <<Head(q), Tail(q)>>

\* ------------------------------------------------------------------ add_event
IdleProd == [pc |-> "idle", ev |-> None, block |-> FALSE, timeout |-> FALSE,
             batch |-> <<>>, idx |-> 0, bblock |-> FALSE, retry |-> FALSE,
             inbatch |-> FALSE, fellback |-> FALSE, result |-> "none"]

\* the thread's record when add_event(ev, block, timeout) is entered
EnterAddEvent(r, ev, block, timeout) ==
    [r EXCEPT !.pc = "ae_put", !.ev = ev, !.block = block, !.timeout = timeout,
              !.fellback = FALSE]

\* the thread's record when add_event returns normally: to its caller, the
\* client or the loop of add_events_batch
AddEventReturns(r) ==
    IF r.inbatch
    THEN [r EXCEPT !.pc = "ab_loop", !.idx = r.idx + 1, !.retry = FALSE,
                   !.ev = None, !.block = FALSE, !.timeout = FALSE, !.fellback = FALSE]
    ELSE [IdleProd EXCEPT !.result = "ok", !.ev = r.ev, !.block = r.block,
                          !.fellback = r.fellback]

\* the thread's record when add_event raises queue.Full: add_events_batch
\* catches it once (line 116), the second one reaches the caller, and the
\* record keeps the list and the position the loop was left at
AddEventRaises(r) ==
    IF r.inbatch /\ ~r.retry
    THEN [r EXCEPT !.pc = "ab_except"]
    ELSE [IdleProd EXCEPT !.result = "Full", !.ev = r.ev, !.block = r.block,
                          !.fellback = r.fellback, !.batch = r.batch, !.idx = r.idx]

\* a client calls add_event(event, block, timeout) with a fresh event
AddEventCall(p) ==
    /\ prod[p].pc = "idle"
    /\ next_id <= MaxEvents
    /\ \E block \in BOOLEAN, timeout \in BOOLEAN :
          /\ (timeout => block)
          /\ prod' = [prod EXCEPT ![p] = EnterAddEvent(IdleProd, next_id, block, timeout)]
    /\ next_id' = next_id + 1
    /\ UNCHANGED <<pullvars, pushvars>>
    /\ UNCHANGED <<dvars, cons, enq, deq>>
    /\ UNCHANGED jvars

\* lines 88-92: the first put; queue.Full is caught at line 96.
\* A put that blocks without a timeout waits for room.
AddEventPut(p) ==
    /\ prod[p].pc = "ae_put"
    /\ IF HasRoom
       THEN /\ events' = QueuePut(events, prod[p].ev)
            /\ enq' = Append(enq, prod[p].ev)
            /\ prod' = [prod EXCEPT ![p].pc = "ae_count"]
       ELSE /\ (~prod[p].block \/ prod[p].timeout)
            /\ prod' = [prod EXCEPT ![p].pc = "ae_fallback", ![p].fellback = TRUE]
            /\ UNCHANGED <<events, enq>>
    /\ UNCHANGED <<pullvars, pushvars>>
    /\ UNCHANGED <<max_queue_size, total_events_received, total_events_queued,
                   total_events_pushed, cons, next_id, deq>>
    /\ UNCHANGED jvars

\* lines 93-95 and 100-102: the counters, under _queue_lock
AddEventCount(p) ==
    /\ prod[p].pc = "ae_count"
    /\ total_events_received' = total_events_received + 1
    /\ total_events_queued' = total_events_queued + 1
    /\ prod' = [prod EXCEPT ![p] = AddEventReturns(prod[p])]
    /\ UNCHANGED <<pullvars, pushvars>>
    /\ UNCHANGED <<events, max_queue_size, total_events_pushed, cons, next_id, enq, deq>>
    /\ UNCHANGED jvars

AddEventFallbackSkipsCount(p) ==
    /\ prod[p].pc = "ae_fallback"
    /\ IF HasRoom
       THEN /\ events' = QueuePut(events, prod[p].ev)
            /\ enq' = Append(enq, prod[p].ev)
            /\ prod' = [prod EXCEPT ![p] = AddEventReturns(prod[p])]
       ELSE /\ prod' = [prod EXCEPT ![p] = AddEventRaises(prod[p])]
            /\ UNCHANGED <<events, enq>>
    /\ UNCHANGED <<pullvars, pushvars>>
    /\ UNCHANGED <<max_queue_size, total_events_received, total_events_queued,
                   total_events_pushed, cons, next_id, deq>>
    /\ UNCHANGED jvars

\* line 99: the fallback put(block=True, timeout=1.0): it puts as soon as there
\* is room, and raises queue.Full when the queue is still full at the timeout
AddEventFallback(p) ==
    /\ prod[p].pc = "ae_fallback"
    /\ IF HasRoom
       THEN /\ events' = QueuePut(events, prod[p].ev)
            /\ enq' = Append(enq, prod[p].ev)
            /\ prod' = [prod EXCEPT ![p].pc = "ae_count"]
       ELSE /\ prod' = [prod EXCEPT ![p] = AddEventRaises(prod[p])]
            /\ UNCHANGED <<events, enq>>
    /\ UNCHANGED <<pullvars, pushvars>>
    /\ UNCHANGED <<max_queue_size, total_events_received, total_events_queued,
                   total_events_pushed, cons, next_id, deq>>
    /\ UNCHANGED jvars

\* ------------------------------------------------------------------ add_events_batch
\* a client calls add_events_batch(events, block) with fresh events
AddEventsBatchCall(p) ==
    /\ prod[p].pc = "idle"
    /\ \E n \in 0..MaxBatch, block \in BOOLEAN :
          /\ next_id + n - 1 <= MaxEvents
          /\ prod' = [prod EXCEPT ![p] =
                        [IdleProd EXCEPT !.pc = "ab_loop", !.batch = SeqFromTo(next_id, n),
                                         !.idx = 1, !.bblock = block, !.inbatch = TRUE]]
          /\ next_id' = next_id + n
    /\ UNCHANGED <<pullvars, pushvars>>
    /\ UNCHANGED <<dvars, cons, enq, deq>>
    /\ UNCHANGED jvars

\* lines 112-115: the next event of the list, or the end of the list
AddEventsBatchLoop(p) ==
    /\ prod[p].pc = "ab_loop"
    /\ IF prod[p].idx <= Len(prod[p].batch)
       THEN prod' = [prod EXCEPT ![p] =
                       EnterAddEvent(prod[p], prod[p].batch[prod[p].idx],
                                     prod[p].bblock, FALSE)]
       ELSE prod' = [prod EXCEPT ![p] = [IdleProd EXCEPT !.result = "ok"]]
    /\ UNCHANGED <<pullvars, pushvars>>
    /\ UNCHANGED <<dvars, cons, next_id, enq, deq>>
    /\ UNCHANGED jvars

\* lines 116-119: the retry, add_event(ev, block=True, timeout=1.0)
AddEventsBatchRetry(p) ==
    /\ prod[p].pc = "ab_except"
    /\ prod' = [prod EXCEPT ![p] =
                  EnterAddEvent([prod[p] EXCEPT !.retry = TRUE],
                                prod[p].batch[prod[p].idx], TRUE, TRUE)]
    /\ UNCHANGED <<pullvars, pushvars>>
    /\ UNCHANGED <<dvars, cons, next_id, enq, deq>>
    /\ UNCHANGED jvars

\* ------------------------------------------------------------------ get_event
\* q0 and enq0 remember what a get_events_batch call found: the queue and the
\* number of events ever put, when the call was made
IdleCons == [pc |-> "idle", timeout |-> FALSE, size |-> 0, batch |-> <<>>,
             left |-> 0, result |-> <<>>, q0 |-> <<>>, enq0 |-> 0]

\* the consumer calls get_event(timeout)
GetEventCall ==
    /\ cons.pc = "idle"
    /\ \E timeout \in BOOLEAN :
          cons' = [IdleCons EXCEPT !.pc = "ge_get", !.timeout = timeout]
    /\ UNCHANGED <<pullvars, pushvars>>
    /\ UNCHANGED <<dvars, prod, next_id, enq, deq>>
    /\ UNCHANGED jvars

\* lines 134-138: the head of the queue; None when the queue is still empty
\* at the timeout; without a timeout the get waits for an event
GetEvent ==
    /\ cons.pc = "ge_get"
    /\ IF events /= <<>>
       THEN /\ events' = QueueGet(events)[2]
            /\ deq' = Append(deq, QueueGet(events)[1])
            /\ cons' = [cons EXCEPT !.pc = "idle", !.result = <<QueueGet(events)[1]>>]
       ELSE /\ cons.timeout
            /\ cons' = [cons EXCEPT !.pc = "idle", !.result = <<None>>]
            /\ UNCHANGED <<events, deq>>
    /\ UNCHANGED <<pullvars, pushvars>>
    /\ UNCHANGED <<max_queue_size, total_events_received, total_events_queued,
                   total_events_pushed, prod, next_id, enq>>
    /\ UNCHANGED jvars

\* ------------------------------------------------------------------ get_events_batch
\* the consumer calls get_events_batch(batch_size, timeout)
GetEventsBatchCall ==
    /\ cons.pc = "idle"
    /\ \E size \in 1..MaxBatch, timeout \in BOOLEAN :
          cons' = [IdleCons EXCEPT !.pc = "gb_first", !.timeout = timeout, !.size = size,
                                   !.q0 = events, !.enq0 = Len(enq)]
    /\ UNCHANGED <<pullvars, pushvars>>
    /\ UNCHANGED <<dvars, prod, next_id, enq, deq>>
    /\ UNCHANGED jvars

GetEventsBatchFirstKeepsSize ==
    /\ cons.pc = "gb_first"
    /\ IF events /= <<>>
       THEN /\ events' = QueueGet(events)[2]
            /\ cons' = [cons EXCEPT !.pc = "gb_drain", !.batch = <<QueueGet(events)[1]>>,
                                    !.left = cons.size]
            /\ UNCHANGED deq
       ELSE /\ cons.timeout
            /\ cons' = [cons EXCEPT !.pc = "idle", !.result = <<>>]
            /\ UNCHANGED <<events, deq>>
    /\ UNCHANGED <<pullvars, pushvars>>
    /\ UNCHANGED <<max_queue_size, total_events_received, total_events_queued,
                   total_events_pushed, prod, next_id, enq>>
    /\ UNCHANGED jvars

\* lines 152-156: first = get_event(timeout); an empty list when it is None
GetEventsBatchFirst ==
    /\ cons.pc = "gb_first"
    /\ IF events /= <<>>
       THEN /\ events' = QueueGet(events)[2]
            /\ cons' = [cons EXCEPT !.pc = "gb_drain", !.batch = <<QueueGet(events)[1]>>,
                                    !.left = cons.size - 1]
            /\ UNCHANGED deq
       ELSE /\ cons.timeout
            /\ cons' = [cons EXCEPT !.pc = "idle", !.result = <<>>]
            /\ UNCHANGED <<events, deq>>
    /\ UNCHANGED <<pullvars, pushvars>>
    /\ UNCHANGED <<max_queue_size, total_events_received, total_events_queued,
                   total_events_pushed, prod, next_id, enq>>
    /\ UNCHANGED jvars

\* lines 158-164: up to batch_size - 1 get_nowait calls, until queue.Empty
GetEventsBatchDrain ==
    /\ cons.pc = "gb_drain"
    /\ IF cons.left > 0 /\ events /= <<>>
       THEN /\ events' = QueueGet(events)[2]
            /\ cons' = [cons EXCEPT !.batch = Append(cons.batch, QueueGet(events)[1]),
                                    !.left = cons.left - 1]
            /\ UNCHANGED deq
       ELSE /\ cons' = [cons EXCEPT !.pc = "idle", !.result = cons.batch, !.batch = <<>>]
            /\ deq' = deq \o cons.batch
            /\ UNCHANGED events
    /\ UNCHANGED <<pullvars, pushvars>>
    /\ UNCHANGED <<max_queue_size, total_events_received, total_events_queued,
                   total_events_pushed, prod, next_id, enq>>
    /\ UNCHANGED jvars

\* ------------------------------------------------------------------ task_done and join
\* Queue.unfinished_tasks: put() adds one with the item, under the queue's
\* mutex, and a task_done() that succeeds takes one away
unfinished_tasks == Len(enq) - acked

\* ignored: whether a round of the last task_done call was refused
IdleAck == [pc |-> "idle", left |-> 0, ignored |-> FALSE]

IdleJoin == [pc |-> "idle", puts |-> 0, acked |-> 0, events |-> <<>>]

\* no registry call has been made by a client yet
NoCall == [op |-> "none", list |-> "none", c |-> "none", event_before |-> <<>>,
           batch_before |-> <<>>]

\* nobody calls task_done, join or stop, and no registry call is remembered
JoinUnused ==
    /\ acked = 0
    /\ td = IdleAck
    /\ jn = IdleJoin
    /\ stopped = FALSE
    /\ reg = NoCall
    /\ decrements = 0

\* a client calls task_done(n)
TaskDoneCall ==
    /\ td.pc = "idle"
    /\ \E n \in 1..MaxAck : td' = [IdleAck EXCEPT !.pc = "loop", !.left = n]
    /\ UNCHANGED <<dvars, qvars, pullvars, pushvars, acked, jn, stopped, reg, decrements>>

\* lines 171-173 and 178-180: one round of the loop calls Queue.task_done(),
\* which raises ValueError when unfinished_tasks is already 0; the error is
\* caught and the loop goes on; after n rounds task_done returns
TaskDoneAck ==
    /\ td.pc = "loop"
    /\ IF td.left = 0
       THEN /\ td' = [td EXCEPT !.pc = "idle"]
            /\ UNCHANGED acked
       ELSE IF unfinished_tasks > 0
       THEN /\ acked' = acked + 1
            /\ td' = [td EXCEPT !.pc = "count"]
       ELSE /\ td' = [td EXCEPT !.left = td.left - 1, !.ignored = TRUE]
            /\ UNCHANGED acked
    /\ UNCHANGED <<dvars, qvars, pullvars, pushvars, jn, stopped, reg, decrements>>

TaskDoneCountUnguarded ==
    /\ td.pc = "count"
    /\ total_events_queued' = total_events_queued - 1
    /\ decrements' = decrements + 1
    /\ td' = [td EXCEPT !.pc = "loop", !.left = td.left - 1]
    /\ UNCHANGED <<events, max_queue_size, total_events_received, total_events_pushed>>
    /\ UNCHANGED <<qvars, pullvars, pushvars, acked, jn, stopped, reg>>

\* lines 174-177: under _queue_lock the queued counter goes down, unless it is 0
TaskDoneCount ==
    /\ td.pc = "count"
    /\ total_events_queued' = IF total_events_queued > 0 THEN total_events_queued - 1
                              ELSE total_events_queued
    /\ decrements' = IF total_events_queued > 0 THEN decrements + 1 ELSE decrements
    /\ td' = [td EXCEPT !.pc = "loop", !.left = td.left - 1]
    /\ UNCHANGED <<events, max_queue_size, total_events_received, total_events_pushed>>
    /\ UNCHANGED <<qvars, pullvars, pushvars, acked, jn, stopped, reg>>

\* a client calls join() (line 182)
JoinCall ==
    /\ jn.pc = "idle"
    /\ jn' = [jn EXCEPT !.pc = "waiting"]
    /\ UNCHANGED <<dvars, qvars, pullvars, pushvars, acked, td, stopped, reg, decrements>>

JoinReturnAtOnce ==
    /\ jn.pc = "waiting"
    /\ jn' = [pc |-> "returned", puts |-> Len(enq), acked |-> acked, events |-> events]
    /\ UNCHANGED <<dvars, qvars, pullvars, pushvars, acked, td, stopped, reg, decrements>>

\* lines 186-187: Queue.join() waits while unfinished_tasks is not 0; what it
\* leaves behind is remembered: the puts and the acknowledgements so far and
\* the queue
JoinReturn ==
    /\ jn.pc = "waiting"
    /\ unfinished_tasks = 0
    /\ jn' = [pc |-> "returned", puts |-> Len(enq), acked |-> acked, events |-> events]
    /\ UNCHANGED <<dvars, qvars, pullvars, pushvars, acked, td, stopped, reg, decrements>>

\* ------------------------------------------------------------------ stop
ManagerStopPurges ==
    /\ stopped' = TRUE
    /\ events' = <<>>
    /\ enq_at_stop' = IF stopped THEN enq_at_stop ELSE enq
    /\ UNCHANGED <<max_queue_size, total_events_received, total_events_queued,
                   total_events_pushed, qvars, bp, pull, sink_calls, sink_ok, stop_called,
                   pushvars, acked, td, jn, reg, decrements>>

\* lines 319-324: stop() sets the Event, whether it was set or not; the first
\* call is remembered by the events put so far
ManagerStop ==
    /\ stopped' = TRUE
    /\ enq_at_stop' = IF stopped THEN enq_at_stop ELSE enq
    /\ UNCHANGED <<dvars, qvars, bp, pull, sink_calls, sink_ok, stop_called, pushvars,
                   acked, td, jn, reg, decrements>>

\* producer.py __init__: the object before produce_events
\* sent remembers the lists handed to _send_batch, in call order
IdleProducer(bs) == [pc |-> "new", i |-> 0, batch |-> <<>>, batch_size |-> bs,
                     events_produced |-> 0, push_mode |-> FALSE, sent |-> <<>>]

\* the num_events of the producer
num_events == MaxEvents

\* the thread that runs produce_events
ProducerThread == "p1"

\* lines 51-54: produce_events starts
ProduceStart ==
    /\ bp.pc = "new"
    /\ bp' = [bp EXCEPT !.pc = "generate"]
    /\ UNCHANGED pushvars
    /\ UNCHANGED <<dvars, qvars, pull, sink_calls, sink_ok, stop_called, enq_at_stop>>
    /\ UNCHANGED jvars

ProduceEventsAbove ==
    /\ bp.pc = "generate"
    /\ IF bp.i < num_events
       THEN LET b == Append(bp.batch, bp.i) IN
            bp' = [bp EXCEPT !.i = bp.i + 1, !.batch = b,
                             !.pc = IF Len(b) > bp.batch_size THEN "send" ELSE "generate"]
       ELSE bp' = [bp EXCEPT !.pc = IF bp.batch /= <<>> THEN "send" ELSE "done"]
    /\ UNCHANGED pushvars
    /\ UNCHANGED <<dvars, qvars, pull, sink_calls, sink_ok, stop_called, enq_at_stop>>
    /\ UNCHANGED jvars

\* lines 56-65: the next event (event_id = i) joins the send batch; a full
\* batch, and the last partial one, goes to _send_batch
ProduceEvents ==
    /\ bp.pc = "generate"
    /\ IF bp.i < num_events
       THEN LET b == Append(bp.batch, bp.i) IN
            bp' = [bp EXCEPT !.i = bp.i + 1, !.batch = b,
                             !.pc = IF Len(b) >= bp.batch_size THEN "send" ELSE "generate"]
       ELSE bp' = [bp EXCEPT !.pc = IF bp.batch /= <<>> THEN "send" ELSE "done"]
    /\ UNCHANGED pushvars
    /\ UNCHANGED <<dvars, qvars, pull, sink_calls, sink_ok, stop_called, enq_at_stop>>
    /\ UNCHANGED jvars

\* lines 69-73 with push_mode unset: _send_batch calls add_events_batch(batch)
SendBatch ==
    /\ bp.pc = "send"
    /\ ~bp.push_mode
    /\ prod[ProducerThread].pc = "idle"
    /\ bp' = [bp EXCEPT !.pc = "sending", !.sent = Append(bp.sent, bp.batch)]
    /\ prod' = [prod EXCEPT ![ProducerThread] =
                  [IdleProd EXCEPT !.pc = "ab_loop", !.batch = bp.batch, !.idx = 1,
                                   !.bblock = FALSE, !.inbatch = TRUE]]
    /\ UNCHANGED pushvars
    /\ UNCHANGED <<dvars, cons, next_id, enq, deq, pull, sink_calls, sink_ok,
                   stop_called, enq_at_stop>>
    /\ UNCHANGED jvars

\* lines 75-76 and 62: add_events_batch has returned; events_produced, batch = []
SendBatchDone ==
    /\ bp.pc = "sending"
    /\ ~bp.push_mode
    /\ prod[ProducerThread].pc = "idle"
    /\ prod[ProducerThread].result = "ok"
    /\ bp' = [bp EXCEPT !.events_produced = bp.events_produced + Len(bp.batch),
                        !.batch = <<>>,
                        !.pc = IF bp.i < num_events THEN "generate" ELSE "done"]
    /\ prod' = [prod EXCEPT ![ProducerThread] = IdleProd]
    /\ UNCHANGED pushvars
    /\ UNCHANGED <<dvars, cons, next_id, enq, deq, pull, sink_calls, sink_ok,
                   stop_called, enq_at_stop>>
    /\ UNCHANGED jvars

\* ------------------------------------------------------------------ BankingConsumerPull
\* consumer_pull.py __init__ (lines 18-27)
NewPullConsumer(bs) == [pc |-> "new", running |-> FALSE, batch |-> <<>>,
                        batch_size |-> bs, events_processed |-> 0]

\* `if event:` (line 86): an event is a non-empty dict, None is not
Truthy(e) == e /= None

FlushDueAbove(batch, bs) == Len(batch) > bs

\* line 88: the flush threshold
FlushDue(batch, bs) == Len(batch) >= bs

\* lines 80-82: start_consuming sets running
PullStart ==
    /\ pull.pc = "new"
    /\ pull' = [pull EXCEPT !.pc = "while", !.running = TRUE]
    /\ UNCHANGED pushvars
    /\ UNCHANGED <<dvars, qvars, bp, sink_calls, sink_ok, stop_called, enq_at_stop>>
    /\ UNCHANGED jvars

\* line 84, left operand: self.running
PullLoopRunning ==
    /\ pull.pc = "while"
    /\ pull' = [pull EXCEPT !.pc = IF pull.running THEN "get" ELSE "has_events"]
    /\ UNCHANGED pushvars
    /\ UNCHANGED <<dvars, qvars, bp, sink_calls, sink_ok, stop_called, enq_at_stop>>
    /\ UNCHANGED jvars

PullLoopNoDrain ==
    /\ pull.pc = "has_events"
    /\ pull' = [pull EXCEPT !.pc = "exit"]
    /\ UNCHANGED pushvars
    /\ UNCHANGED <<dvars, qvars, bp, sink_calls, sink_ok, stop_called, enq_at_stop>>
    /\ UNCHANGED jvars

\* line 84, right operand: self.manager.has_events() (lines 334-336)
PullLoopHasEvents ==
    /\ pull.pc = "has_events"
    /\ pull' = [pull EXCEPT !.pc = IF events /= <<>> THEN "get" ELSE "exit"]
    /\ UNCHANGED pushvars
    /\ UNCHANGED <<dvars, qvars, bp, sink_calls, sink_ok, stop_called, enq_at_stop>>
    /\ UNCHANGED jvars

\* lines 85-88: get_event(timeout=0.05) returns the head of the queue, or None
\* when the queue is still empty at the timeout; an event joins the batch
PullGet ==
    /\ pull.pc = "get"
    /\ IF events /= <<>>
       THEN LET e == QueueGet(events)[1]
                b == IF Truthy(e) THEN Append(pull.batch, e) ELSE pull.batch
            IN /\ events' = QueueGet(events)[2]
               /\ deq' = Append(deq, e)
               /\ pull' = [pull EXCEPT !.batch = b,
                              !.pc = IF Truthy(e) /\ FlushDue(b, pull.batch_size)
                                     THEN "flush" ELSE "while"]
       ELSE /\ pull' = [pull EXCEPT !.pc = "while"]
            /\ UNCHANGED <<events, deq>>
    /\ UNCHANGED pushvars
    /\ UNCHANGED <<max_queue_size, total_events_received, total_events_queued,
                   total_events_pushed, prod, cons, next_id, enq, bp, sink_calls,
                   sink_ok, stop_called, enq_at_stop>>
    /\ UNCHANGED jvars

\* lines 89 and 95: _bulk_insert(batch) stores the batch
PullBulkInsert ==
    /\ pull.pc \in {"flush", "exit_flush"}
    /\ sink_calls' = Append(sink_calls,
                            [batch |-> pull.batch,
                             site |-> IF pull.pc = "flush" THEN "loop" ELSE "exit"])
    /\ pull' = [pull EXCEPT !.pc = IF pull.pc = "flush" THEN "count" ELSE "exit_count"]
    /\ UNCHANGED pushvars
    /\ UNCHANGED <<dvars, qvars, bp, sink_ok, stop_called, enq_at_stop>>
    /\ UNCHANGED jvars

\* lines 89 and 95: _bulk_insert(batch) raises; the error leaves start_consuming
PullBulkInsertRaises ==
    /\ pull.pc \in {"flush", "exit_flush"}
    /\ ~sink_ok
    /\ pull' = [pull EXCEPT !.pc = "raised"]
    /\ UNCHANGED pushvars
    /\ UNCHANGED <<dvars, qvars, bp, sink_calls, sink_ok, stop_called, enq_at_stop>>
    /\ UNCHANGED jvars

PullCountKeepsBatch ==
    /\ pull.pc = "count"
    /\ pull' = [pull EXCEPT !.events_processed = pull.events_processed + Len(pull.batch),
                            !.pc = "while"]
    /\ UNCHANGED pushvars
    /\ UNCHANGED <<dvars, qvars, bp, sink_calls, sink_ok, stop_called, enq_at_stop>>
    /\ UNCHANGED jvars

\* lines 90-92: events_processed under the lock, batch = []
PullCount ==
    /\ pull.pc = "count"
    /\ pull' = [pull EXCEPT !.events_processed = pull.events_processed + Len(pull.batch),
                            !.batch = <<>>, !.pc = "while"]
    /\ UNCHANGED pushvars
    /\ UNCHANGED <<dvars, qvars, bp, sink_calls, sink_ok, stop_called, enq_at_stop>>
    /\ UNCHANGED jvars

\* line 94: the loop is left; a non-empty batch is flushed
PullExit ==
    /\ pull.pc = "exit"
    /\ pull' = [pull EXCEPT !.pc = IF pull.batch /= <<>> THEN "exit_flush" ELSE "returned"]
    /\ UNCHANGED pushvars
    /\ UNCHANGED <<dvars, qvars, bp, sink_calls, sink_ok, stop_called, enq_at_stop>>
    /\ UNCHANGED jvars

\* lines 96-98: events_processed under the lock; start_consuming returns
PullExitCount ==
    /\ pull.pc = "exit_count"
    /\ pull' = [pull EXCEPT !.events_processed = pull.events_processed + Len(pull.batch),
                            !.pc = "returned"]
    /\ UNCHANGED pushvars
    /\ UNCHANGED <<dvars, qvars, bp, sink_calls, sink_ok, stop_called, enq_at_stop>>
    /\ UNCHANGED jvars

\* lines 100-101: stop(), from the thread that owns the consumer
PullStop ==
    /\ ~stop_called
    /\ pull' = [pull EXCEPT !.running = FALSE]
    /\ stop_called' = TRUE
    /\ enq_at_stop' = enq
    /\ UNCHANGED pushvars
    /\ UNCHANGED <<dvars, qvars, bp, sink_calls, sink_ok>>
    /\ UNCHANGED jvars

\* ------------------------------------------------------------------ PUSH: threads and callbacks
Free == "free"

NoCb == "none"

\* the threads that call push_event / push_events_batch
Pushers == {"t1"}

\* the threads that call register / unregister while pushes are in flight
Registrars == {"t2"}

\* the executor's worker threads (push_executor_workers)
Workers == {"w1"}

\* the worker threads of the executor a push consumer is run with
PoolWorkers == {"w1", "w2"}

Threads == Pushers \cup Registrars \cup Workers \cup PoolWorkers

\* the callbacks a client registers: "rec" returns normally, "bad" raises;
\* the body of either may call register / unregister on the manager
Callbacks == {"rec", "bad"}

IdleThread == [pc |-> "idle", k |-> 0, j |-> 0, cb |-> NoCb, pay |-> <<>>, ret |-> "idle"]

\* the callbacks that are registered or unregistered while pushes are in flight
RegistryArgs == {"rec"}

\* whether the callback's body raises
Raises(c) == c = "bad"

Invocation(k, c, kind, pay) == [k |-> k, cb |-> c, kind |-> kind, pay |-> pay]

\* _safe_call(cb, payload) is entered by thread record r for invocation inv;
\* `ret` is where the thread continues when it returns
BeginCallback(r, inv, ret) ==
    [r EXCEPT !.pc = "cb_run", !.k = inv.k, !.cb = inv.cb, !.pay = inv.pay, !.ret = ret]

RemoveLatest(list, c) ==
    IF c \notin Range(list) THEN list
    ELSE LET i == CHOOSE i \in DOMAIN list :
                      list[i] = c /\ \A j \in DOMAIN list : j > i => list[j] /= c
         IN SubSeq(list, 1, i - 1) \o SubSeq(list, i + 1, Len(list))

\* list.remove(callback), ValueError passed over: the first occurrence goes
RECURSIVE Remove(_, _)
Remove(list, c) ==
    IF list = <<>> THEN <<>>
    ELSE IF Head(list) = c THEN Tail(list)
    ELSE <<Head(list)>> \o Remove(Tail(list), c)

\* ------------------------------------------------------------------ register / unregister
\* the number of registrations the manager holds
Registered == Len(push_event_callbacks) + Len(push_batch_callbacks)

\* list.remove(callback) (lines 206, 222), or list.append(callback) (lines 200, 216)
Registry(op, list, c) ==
    IF op = "unregister" THEN Remove(list, c)
    ELSE IF Registered < MaxReg THEN Append(list, c)
    ELSE list

RegistryWithoutLock(t) ==
    /\ \/ th[t].pc = "idle" /\ t \in Registrars
       \/ th[t].pc = "cb_run"
    /\ regops < MaxRegOps
    /\ th' = [th EXCEPT ![t].pc = "r_do"]
    /\ regops' = regops + 1
    /\ UNCHANGED <<dvars, qvars, pullvars, push_event_callbacks, push_batch_callbacks,
                   push_lock, push_executor, pool_queue, pushes, calls>>
    /\ UNCHANGED pcvars
    /\ UNCHANGED jvars

\* register_push_callback, unregister_push_callback, register_push_batch_callback
\* or unregister_push_batch_callback is called, by a client thread or from the
\* body of a running callback, and takes the lock (lines 199, 204, 215, 220)
RegistryLock(t) ==
    /\ \/ th[t].pc = "idle" /\ t \in Registrars
       \/ th[t].pc = "cb_run"
    /\ regops < MaxRegOps
    /\ push_lock = Free
    /\ push_lock' = t
    /\ th' = [th EXCEPT ![t].pc = "r_do"]
    /\ regops' = regops + 1
    /\ UNCHANGED <<dvars, qvars, pullvars, push_event_callbacks, push_batch_callbacks,
                   push_executor, pool_queue, pushes, calls>>
    /\ UNCHANGED pcvars
    /\ UNCHANGED jvars

\* lines 200, 205-208, 216, 221-224: the method that was called appends its
\* argument to its registry or removes it, and the lock is released; the thread
\* is back in its caller, a client or the body of a callback
RegistryDo(t) ==
    /\ th[t].pc = "r_do"
    /\ \E op \in {"register", "unregister"}, list \in {"event", "batch"}, c \in RegistryArgs :
          /\ push_event_callbacks' =
                IF list = "event" THEN Registry(op, push_event_callbacks, c)
                ELSE push_event_callbacks
          /\ push_batch_callbacks' =
                IF list = "batch" THEN Registry(op, push_batch_callbacks, c)
                ELSE push_batch_callbacks
    /\ th' = [th EXCEPT ![t].pc = IF th[t].cb = NoCb THEN "idle" ELSE "cb_exit"]
    /\ push_lock' = Free
    /\ UNCHANGED <<dvars, qvars, pullvars, push_executor, pool_queue, pushes, calls, regops>>
    /\ UNCHANGED pcvars
    /\ UNCHANGED jvars

\* ------------------------------------------------------------------ register / unregister, whole calls
\* registrations a client makes in all
MaxRegistrations == 3

\* the registry call that is made, with the registries as it finds them
CallOf(op, list, c) == [op |-> op, list |-> list, c |-> c,
                        event_before |-> push_event_callbacks,
                        batch_before |-> push_batch_callbacks]

\* register_push_callback(c) (lines 194-200) or register_push_batch_callback(c)
\* (lines 210-216), from lock to release: c is appended
RegisterCallback(t, list, c) ==
    /\ th[t].pc = "idle"
    /\ push_lock = Free
    /\ Registered < MaxRegistrations
    /\ push_event_callbacks' = IF list = "event" THEN Append(push_event_callbacks, c)
                               ELSE push_event_callbacks
    /\ push_batch_callbacks' = IF list = "batch" THEN Append(push_batch_callbacks, c)
                               ELSE push_batch_callbacks
    /\ reg' = CallOf("register", list, c)
    /\ UNCHANGED <<dvars, qvars, pullvars, push_lock, push_executor, pool_queue, th, pushes,
                   calls, regops, pcvars, acked, td, jn, stopped, decrements>>

UnregisterCallbackLast(t, list, c) ==
    /\ th[t].pc = "idle"
    /\ push_lock = Free
    /\ push_event_callbacks' =
          IF list = "event" /\ push_event_callbacks /= <<>>
          THEN SubSeq(push_event_callbacks, 1, Len(push_event_callbacks) - 1)
          ELSE push_event_callbacks
    /\ push_batch_callbacks' =
          IF list = "batch" /\ push_batch_callbacks /= <<>>
          THEN SubSeq(push_batch_callbacks, 1, Len(push_batch_callbacks) - 1)
          ELSE push_batch_callbacks
    /\ reg' = CallOf("unregister", list, c)
    /\ UNCHANGED <<dvars, qvars, pullvars, push_lock, push_executor, pool_queue, th, pushes,
                   calls, regops, pcvars, acked, td, jn, stopped, decrements>>

\* unregister_push_callback(c) (lines 202-208) or
\* unregister_push_batch_callback(c) (lines 218-224), from lock to release:
\* list.remove(c), and the ValueError of an absent c is passed over
UnregisterCallback(t, list, c) ==
    /\ th[t].pc = "idle"
    /\ push_lock = Free
    /\ push_event_callbacks' = IF list = "event" THEN Remove(push_event_callbacks, c)
                               ELSE push_event_callbacks
    /\ push_batch_callbacks' = IF list = "batch" THEN Remove(push_batch_callbacks, c)
                               ELSE push_batch_callbacks
    /\ reg' = CallOf("unregister", list, c)
    /\ UNCHANGED <<dvars, qvars, pullvars, push_lock, push_executor, pool_queue, th, pushes,
                   calls, regops, pcvars, acked, td, jn, stopped, decrements>>

\* ------------------------------------------------------------------ push_event / push_events_batch
NewPush(t, op, evs) == [by |-> t, op |-> op, evs |-> evs, ecbs |-> <<>>, bcbs |-> <<>>,
                        at_e |-> <<>>, at_b |-> <<>>, state |-> "snapshot"]

\* the push calls thread t has made
PushesBy(t) == Cardinality({k \in DOMAIN pushes : pushes[k].by = t})

\* lines 238-239 and 264-265: the lock is taken and the first list(...) copy is
\* made; push_event copies the per-event registry first, push_events_batch the
\* per-batch registry. at_e and at_b record both registries at this instant.
CopyFirst(p) ==
    [p EXCEPT !.ecbs = IF p.op = "push_event" THEN push_event_callbacks ELSE p.ecbs,
              !.bcbs = IF p.op = "push_events_batch" THEN push_batch_callbacks ELSE p.bcbs,
              !.at_e = push_event_callbacks,
              !.at_b = push_batch_callbacks]

\* a client thread calls push_event(event) with a fresh event
PushEventCall(t) ==
    /\ th[t].pc = "idle"
    /\ PushesBy(t) < MaxPush
    /\ push_lock = Free
    /\ push_lock' = t
    /\ pushes' = Append(pushes, CopyFirst(NewPush(t, "push_event", <<next_id>>)))
    /\ next_id' = next_id + 1
    /\ th' = [th EXCEPT ![t] = [IdleThread EXCEPT !.pc = "p_copy2", !.k = Len(pushes) + 1]]
    /\ UNCHANGED <<dvars, prod, cons, enq, deq, pullvars, push_event_callbacks,
                   push_batch_callbacks, push_executor, pool_queue, calls, regops>>
    /\ UNCHANGED pcvars
    /\ UNCHANGED jvars

\* a client thread calls push_events_batch(events) with fresh events
PushEventsBatchCall(t) ==
    /\ th[t].pc = "idle"
    /\ PushesBy(t) < MaxPush
    /\ push_lock = Free
    /\ push_lock' = t
    /\ \E n \in 1..MaxBatch :
          /\ pushes' = Append(pushes,
                              CopyFirst(NewPush(t, "push_events_batch", SeqFromTo(next_id, n))))
          /\ next_id' = next_id + n
    /\ th' = [th EXCEPT ![t] = [IdleThread EXCEPT !.pc = "p_copy2", !.k = Len(pushes) + 1]]
    /\ UNCHANGED <<dvars, prod, cons, enq, deq, pullvars, push_event_callbacks,
                   push_batch_callbacks, push_executor, pool_queue, calls, regops>>
    /\ UNCHANGED pcvars
    /\ UNCHANGED jvars

\* lines 261-262: push_events_batch([]) returns at once
PushEventsBatchEmpty(t) ==
    /\ th[t].pc = "idle"
    /\ PushesBy(t) < MaxPush
    /\ pushes' = Append(pushes, [NewPush(t, "push_events_batch", <<>>) EXCEPT !.state = "returned"])
    /\ UNCHANGED <<dvars, qvars, pullvars, push_event_callbacks, push_batch_callbacks,
                   push_lock, push_executor, pool_queue, th, calls, regops>>
    /\ UNCHANGED pcvars
    /\ UNCHANGED jvars

PushCopySecondKeepsLock(t) ==
    /\ th[t].pc = "p_copy2"
    /\ LET k == th[t].k IN
       pushes' = [pushes EXCEPT ![k] =
                    [pushes[k] EXCEPT
                       !.ecbs = IF pushes[k].op = "push_events_batch"
                                THEN push_event_callbacks ELSE pushes[k].ecbs,
                       !.bcbs = IF pushes[k].op = "push_event"
                                THEN push_batch_callbacks ELSE pushes[k].bcbs,
                       !.state = "dispatch"]]
    /\ th' = [th EXCEPT ![t].pc = "p_dispatch", ![t].j = 1]
    /\ UNCHANGED <<dvars, qvars, pullvars, push_event_callbacks, push_batch_callbacks,
                   push_lock, push_executor, pool_queue, calls, regops>>
    /\ UNCHANGED pcvars
    /\ UNCHANGED jvars

\* lines 240 and 266: the second list(...) copy, and the lock is released
PushCopySecond(t) ==
    /\ th[t].pc = "p_copy2"
    /\ LET k == th[t].k IN
       pushes' = [pushes EXCEPT ![k] =
                    [pushes[k] EXCEPT
                       !.ecbs = IF pushes[k].op = "push_events_batch"
                                THEN push_event_callbacks ELSE pushes[k].ecbs,
                       !.bcbs = IF pushes[k].op = "push_event"
                                THEN push_batch_callbacks ELSE pushes[k].bcbs,
                       !.state = "dispatch"]]
    /\ push_lock' = Free
    /\ th' = [th EXCEPT ![t].pc = "p_dispatch", ![t].j = 1]
    /\ UNCHANGED <<dvars, qvars, pullvars, push_event_callbacks, push_batch_callbacks,
                   push_executor, pool_queue, calls, regops>>
    /\ UNCHANGED pcvars
    /\ UNCHANGED jvars

EventPlanStopsEarly(k, ecbs, ev) ==
    [j \in 1..(IF Len(ecbs) > 1 THEN Len(ecbs) - 1 ELSE Len(ecbs)) |->
        Invocation(k, ecbs[j], "event", <<ev>>)]

EventPlanReversed(k, ecbs, ev) ==
    [j \in 1..Len(ecbs) |-> Invocation(k, ecbs[Len(ecbs) + 1 - j], "event", <<ev>>)]

\* the callback invocations of one event: _dispatch_to_callbacks (lines 283-293)
EventPlan(k, ecbs, ev) == [j \in 1..Len(ecbs) |-> Invocation(k, ecbs[j], "event", <<ev>>)]

\* lines 246-247 and 272-275: every event goes to the per-event callbacks
RECURSIVE EventsPlan(_, _, _)
EventsPlan(k, ecbs, evs) ==
    IF evs = <<>> THEN <<>>
    ELSE EventPlan(k, ecbs, Head(evs)) \o EventsPlan(k, ecbs, Tail(evs))

PlanOfEventsFirst(k, bcbs, ecbs, evs) ==
    EventsPlan(k, ecbs, evs) \o [j \in 1..Len(bcbs) |-> Invocation(k, bcbs[j], "batch", evs)]

\* lines 243-247 and 268-275: the invocations a push makes, in order: the
\* batch callbacks get the batch (_dispatch_batch_to_callbacks, lines 295-306),
\* then the per-event callbacks get each event
PlanOf(k, bcbs, ecbs, evs) ==
    [j \in 1..Len(bcbs) |-> Invocation(k, bcbs[j], "batch", evs)] \o EventsPlan(k, ecbs, evs)

\* the invocations of push k, from the copies it made of the registries
Plan(k) == PlanOf(k, pushes[k].bcbs, pushes[k].ecbs, pushes[k].evs)

\* one callback of the dispatch loops: with an executor the call is submitted
\* (lines 288, 301), without one _safe_call runs on the pushing thread (lines
\* 293, 306)
PushDispatch(t) ==
    /\ th[t].pc = "p_dispatch"
    /\ th[t].j <= Len(Plan(th[t].k))
    /\ LET inv == Plan(th[t].k)[th[t].j] IN
       IF push_executor
       THEN /\ pool_queue' = Append(pool_queue, inv)
            /\ th' = [th EXCEPT ![t].j = th[t].j + 1]
            /\ UNCHANGED calls
       ELSE /\ calls' = Append(calls, inv)
            /\ th' = [th EXCEPT ![t] = BeginCallback(th[t], inv, "p_dispatch")]
            /\ UNCHANGED pool_queue
    /\ UNCHANGED <<dvars, qvars, pullvars, push_event_callbacks, push_batch_callbacks,
                   push_lock, push_executor, pushes, regops>>
    /\ UNCHANGED pcvars
    /\ UNCHANGED jvars

PushCountOne(t) ==
    /\ th[t].pc = "p_dispatch"
    /\ th[t].j > Len(Plan(th[t].k))
    /\ LET k == th[t].k IN
       /\ total_events_received' = total_events_received + 1
       /\ total_events_pushed' = total_events_pushed + 1
       /\ pushes' = [pushes EXCEPT ![k].state = "returned"]
    /\ th' = [th EXCEPT ![t] = IdleThread]
    /\ UNCHANGED <<events, max_queue_size, total_events_queued, qvars, pullvars,
                   push_event_callbacks, push_batch_callbacks, push_lock, push_executor,
                   pool_queue, calls, regops>>
    /\ UNCHANGED pcvars
    /\ UNCHANGED jvars

\* lines 249-252 and 277-280: the counters, under _queue_lock; the push returns
PushCount(t) ==
    /\ th[t].pc = "p_dispatch"
    /\ th[t].j > Len(Plan(th[t].k))
    /\ LET k == th[t].k IN
       /\ total_events_received' = total_events_received + Len(pushes[k].evs)
       /\ total_events_pushed' = total_events_pushed + Len(pushes[k].evs)
       /\ pushes' = [pushes EXCEPT ![k].state = "returned"]
    /\ th' = [th EXCEPT ![t] = IdleThread]
    /\ UNCHANGED <<events, max_queue_size, total_events_queued, qvars, pullvars,
                   push_event_callbacks, push_batch_callbacks, push_lock, push_executor,
                   pool_queue, calls, regops>>
    /\ UNCHANGED pcvars
    /\ UNCHANGED jvars

\* ------------------------------------------------------------------ callbacks and the executor
\* a worker of the ThreadPoolExecutor takes the oldest submitted call
WorkerTake(w) ==
    /\ th[w].pc = "idle"
    /\ pool_queue /= <<>>
    /\ calls' = Append(calls, Head(pool_queue))
    /\ th' = [th EXCEPT ![w] = BeginCallback(IdleThread, Head(pool_queue), "idle")]
    /\ pool_queue' = Tail(pool_queue)
    /\ UNCHANGED <<dvars, qvars, pullvars, push_event_callbacks, push_batch_callbacks,
                   push_lock, push_executor, pushes, regops>>
    /\ UNCHANGED pcvars
    /\ UNCHANGED jvars

\* the thread's record when _safe_call is left: back in the dispatch loop at the
\* next callback, or a worker that is free again
AfterCallback(r) ==
    IF r.ret = "idle" THEN IdleThread
    ELSE [r EXCEPT !.pc = r.ret, !.j = r.j + 1, !.cb = NoCb, !.pay = <<>>, !.ret = "idle"]

SafeCallPropagates(t) ==
    /\ \/ th[t].pc = "cb_run" /\ th[t].cb \in Callbacks
       \/ th[t].pc = "cb_exit"
    /\ IF Raises(th[t].cb) /\ th[t].ret /= "idle"
       THEN /\ pushes' = [pushes EXCEPT ![th[t].k].state = "raised"]
            /\ th' = [th EXCEPT ![t] = IdleThread]
       ELSE /\ th' = [th EXCEPT ![t] = AfterCallback(th[t])]
            /\ UNCHANGED pushes
    /\ UNCHANGED <<dvars, qvars, pullvars, push_event_callbacks, push_batch_callbacks,
                   push_lock, push_executor, pool_queue, calls, regops>>
    /\ UNCHANGED pcvars
    /\ UNCHANGED jvars

\* lines 309-314: cb(payload) returns, or raises and _safe_call logs the exception
SafeCallEnd(t) ==
    /\ \/ th[t].pc = "cb_run" /\ th[t].cb \in Callbacks
       \/ th[t].pc = "cb_exit"
    /\ th' = [th EXCEPT ![t] = AfterCallback(th[t])]
    /\ UNCHANGED <<dvars, qvars, pullvars, push_event_callbacks, push_batch_callbacks,
                   push_lock, push_executor, pool_queue, pushes, calls, regops>>
    /\ UNCHANGED pcvars
    /\ UNCHANGED jvars

\* ------------------------------------------------------------------ BankingEventProducer, push_mode
\* producer.py lines 69-71 with push_mode set: _send_batch calls
\* push_events_batch(batch) on thread t; the list is never empty, so the call
\* takes the registry lock and makes its first copy (lines 264-265)
SendBatchPush(t) ==
    /\ bp.pc = "send"
    /\ bp.push_mode
    /\ th[t].pc = "idle"
    /\ push_lock = Free
    /\ push_lock' = t
    /\ bp' = [bp EXCEPT !.pc = "sending", !.sent = Append(bp.sent, bp.batch)]
    /\ pushes' = Append(pushes, CopyFirst(NewPush(t, "push_events_batch", bp.batch)))
    /\ th' = [th EXCEPT ![t] = [IdleThread EXCEPT !.pc = "p_copy2", !.k = Len(pushes) + 1]]
    /\ UNCHANGED <<dvars, qvars, pull, sink_calls, sink_ok, stop_called, enq_at_stop,
                   push_event_callbacks, push_batch_callbacks, push_executor, pool_queue,
                   calls, regops, pcvars, jvars>>

\* producer.py lines 75-76 and 62: push_events_batch has returned;
\* events_produced, batch = []
SendBatchPushDone(t) ==
    /\ bp.pc = "sending"
    /\ bp.push_mode
    /\ th[t].pc = "idle"
    /\ bp' = [bp EXCEPT !.events_produced = bp.events_produced + Len(bp.batch),
                        !.batch = <<>>,
                        !.pc = IF bp.i < num_events THEN "generate" ELSE "done"]
    /\ UNCHANGED <<dvars, qvars, pull, sink_calls, sink_ok, stop_called, enq_at_stop,
                   pushvars, jvars>>

\* ------------------------------------------------------------------ BankingConsumerPush
\* on_event_received as a registered callback
ConsumerCb == "consumer"

\* __init__ (lines 18-30)
NewPushConsumer(bs) ==
    [batch_size |-> bs, event_batch |-> <<>>, batch_lock |-> Free, events_processed |-> 0,
     finish |-> "no", failed |-> <<>>]

\* register (lines 98-99): on_event_received joins the per-event registry;
\* run_push_model calls it once (main.py line 66)
ConsumerRegister(t) ==
    /\ th[t].pc = "idle"
    /\ push_lock = Free
    /\ ConsumerCb \notin Range(push_event_callbacks)
    /\ push_event_callbacks' = Registry("register", push_event_callbacks, ConsumerCb)
    /\ UNCHANGED <<dvars, qvars, pullvars, push_batch_callbacks, push_lock, push_executor,
                   pool_queue, th, pushes, calls, regops, pcvars>>
    /\ UNCHANGED jvars

OnEventLockShared(t) ==
    /\ th[t].pc = "cb_run"
    /\ th[t].cb = ConsumerCb
    /\ pushc' = [pushc EXCEPT !.batch_lock = t]
    /\ th' = [th EXCEPT ![t].pc = "c_locked"]
    /\ UNCHANGED <<dvars, qvars, pullvars, push_event_callbacks, push_batch_callbacks,
                   push_lock, push_executor, pool_queue, pushes, calls, regops,
                   pushed_at_finish>>
    /\ UNCHANGED jvars

\* line 62: the callback takes the batch lock
OnEventLock(t) ==
    /\ th[t].pc = "cb_run"
    /\ th[t].cb = ConsumerCb
    /\ pushc.batch_lock = Free
    /\ pushc' = [pushc EXCEPT !.batch_lock = t]
    /\ th' = [th EXCEPT ![t].pc = "c_locked"]
    /\ UNCHANGED <<dvars, qvars, pullvars, push_event_callbacks, push_batch_callbacks,
                   push_lock, push_executor, pool_queue, pushes, calls, regops,
                   pushed_at_finish>>
    /\ UNCHANGED jvars

\* line 63: the event is appended to the batch
OnEventAppend(t) ==
    /\ th[t].pc = "c_locked"
    /\ pushc' = [pushc EXCEPT !.event_batch = pushc.event_batch \o th[t].pay]
    /\ th' = [th EXCEPT ![t].pc = "c_check"]
    /\ UNCHANGED <<dvars, qvars, pullvars, push_event_callbacks, push_batch_callbacks,
                   push_lock, push_executor, pool_queue, pushes, calls, regops,
                   pushed_at_finish>>
    /\ UNCHANGED jvars

\* whether the batch has reached the threshold (line 64)
BatchFull(batch) == Len(batch) >= pushc.batch_size

\* lines 64-65 and _process_batch (lines 67-72): at the threshold the batch is
\* copied, reset and stored, and events_processed grows; the lock is released
OnEventThreshold(t) ==
    /\ th[t].pc = "c_check"
    /\ IF BatchFull(pushc.event_batch)
       THEN /\ sink_calls' = Append(sink_calls,
                                    [batch |-> pushc.event_batch, site |-> "threshold"])
            /\ pushc' = [pushc EXCEPT !.event_batch = <<>>,
                                      !.events_processed =
                                          pushc.events_processed + Len(pushc.event_batch),
                                      !.batch_lock = Free]
       ELSE /\ pushc' = [pushc EXCEPT !.batch_lock = Free]
            /\ UNCHANGED sink_calls
    /\ th' = [th EXCEPT ![t].pc = "cb_exit"]
    /\ UNCHANGED <<dvars, qvars, bp, pull, sink_ok, stop_called, enq_at_stop,
                   push_event_callbacks, push_batch_callbacks, push_lock, push_executor,
                   pool_queue, pushes, calls, regops, pushed_at_finish>>
    /\ UNCHANGED jvars

OnEventThresholdRaisesKeeps(t) ==
    /\ th[t].pc = "c_check"
    /\ ~sink_ok
    /\ BatchFull(pushc.event_batch)
    /\ pushc' = [pushc EXCEPT !.batch_lock = Free,
                              !.failed = Append(pushc.failed,
                                                [batch |-> pushc.event_batch,
                                                 site |-> "threshold"])]
    /\ th' = [th EXCEPT ![t].pc = "cb_exit"]
    /\ UNCHANGED <<dvars, qvars, pullvars, push_event_callbacks, push_batch_callbacks,
                   push_lock, push_executor, pool_queue, pushes, calls, regops,
                   pushed_at_finish>>
    /\ UNCHANGED jvars

\* lines 64-70: the threshold is reached, the batch is copied and reset, and
\* _bulk_insert raises: the error leaves on_event_received through the with
\* statement, which releases the lock
OnEventThresholdRaises(t) ==
    /\ th[t].pc = "c_check"
    /\ ~sink_ok
    /\ BatchFull(pushc.event_batch)
    /\ pushc' = [pushc EXCEPT !.event_batch = <<>>, !.batch_lock = Free,
                              !.failed = Append(pushc.failed,
                                                [batch |-> pushc.event_batch,
                                                 site |-> "threshold"])]
    /\ th' = [th EXCEPT ![t].pc = "cb_exit"]
    /\ UNCHANGED <<dvars, qvars, pullvars, push_event_callbacks, push_batch_callbacks,
                   push_lock, push_executor, pool_queue, pushes, calls, regops,
                   pushed_at_finish>>
    /\ UNCHANGED jvars

\* the events of the pushes that have returned, of those that found the
\* consumer registered
RECURSIVE Pushed(_)
Pushed(ps) ==
    IF ps = <<>> THEN <<>>
    ELSE LET p == ps[Len(ps)] IN
         Pushed(SubSeq(ps, 1, Len(ps) - 1))
            \o (IF p.state = "returned" /\ ConsumerCb \in Range(p.ecbs) THEN p.evs ELSE <<>>)

\* finish() is called (line 101) by a thread that is in no other call, and
\* takes the batch lock (line 102)
FinishLock(t) ==
    /\ th[t].pc = "idle"
    /\ pushc.finish = "no"
    /\ pushc.batch_lock = Free
    /\ pushc' = [pushc EXCEPT !.batch_lock = t, !.finish = "called"]
    /\ pushed_at_finish' = Pushed(pushes)
    /\ th' = [th EXCEPT ![t].pc = "f_locked"]
    /\ UNCHANGED <<dvars, qvars, pullvars, push_event_callbacks, push_batch_callbacks,
                   push_lock, push_executor, pool_queue, pushes, calls, regops>>
    /\ UNCHANGED jvars

\* lines 103-105: a non-empty batch goes through _process_batch; the lock is
\* released and finish() returns
FinishFlush(t) ==
    /\ th[t].pc = "f_locked"
    /\ IF pushc.event_batch /= <<>>
       THEN /\ sink_calls' = Append(sink_calls,
                                    [batch |-> pushc.event_batch, site |-> "finish"])
            /\ pushc' = [pushc EXCEPT !.event_batch = <<>>,
                                      !.events_processed =
                                          pushc.events_processed + Len(pushc.event_batch),
                                      !.batch_lock = Free, !.finish = "returned"]
       ELSE /\ pushc' = [pushc EXCEPT !.batch_lock = Free, !.finish = "returned"]
            /\ UNCHANGED sink_calls
    /\ th' = [th EXCEPT ![t].pc = "idle"]
    /\ UNCHANGED <<dvars, qvars, bp, pull, sink_ok, stop_called, enq_at_stop,
                   push_event_callbacks, push_batch_callbacks, push_lock, push_executor,
                   pool_queue, pushes, calls, regops, pushed_at_finish>>
    /\ UNCHANGED jvars

\* lines 103-104 and 68-69: _bulk_insert raises and the error leaves finish()
FinishFlushRaises(t) ==
    /\ th[t].pc = "f_locked"
    /\ ~sink_ok
    /\ pushc.event_batch /= <<>>
    /\ pushc' = [pushc EXCEPT !.event_batch = <<>>, !.batch_lock = Free, !.finish = "raised",
                              !.failed = Append(pushc.failed,
                                                [batch |-> pushc.event_batch,
                                                 site |-> "finish"])]
    /\ th' = [th EXCEPT ![t].pc = "idle"]
    /\ UNCHANGED <<dvars, qvars, pullvars, push_event_callbacks, push_batch_callbacks,
                   push_lock, push_executor, pool_queue, pushes, calls, regops,
                   pushed_at_finish>>
    /\ UNCHANGED jvars

\* ------------------------------------------------------------------ SpecQueue
\* no BankingConsumerPush is at work
PushConsumerUnused ==
    /\ pushc = NewPushConsumer(1)
    /\ pushed_at_finish = <<>>

\* the PUSH side of a manager nobody pushes to
PushSideUnused ==
    /\ push_event_callbacks = <<>>
    /\ push_batch_callbacks = <<>>
    /\ push_lock = Free
    /\ push_executor = FALSE
    /\ pool_queue = <<>>
    /\ th = [t \in Threads |-> IdleThread]
    /\ pushes = <<>>
    /\ calls = <<>>
    /\ regops = 0
    /\ PushConsumerUnused

\* the PULL side of a manager nobody enqueues to
PullSideUnused ==
    /\ events = <<>>
    /\ max_queue_size = 0
    /\ total_events_queued = 0
    /\ prod = [p \in Producers |-> IdleProd]
    /\ cons = IdleCons
    /\ enq = <<>>
    /\ deq = <<>>
    /\ bp = IdleProducer(1)
    /\ pull = NewPullConsumer(1)
    /\ stop_called = FALSE
    /\ enq_at_stop = <<>>

InitQueue ==
    /\ events = <<>>
    /\ max_queue_size \in {0, MaxQueue}
    /\ total_events_received = 0
    /\ total_events_queued = 0
    /\ total_events_pushed = 0
    /\ prod = [p \in Producers |-> IdleProd]
    /\ cons = IdleCons
    /\ next_id = 1
    /\ enq = <<>>
    /\ deq = <<>>
    /\ bp = IdleProducer(1)
    /\ pull = NewPullConsumer(1)
    /\ sink_calls = <<>>
    /\ sink_ok = TRUE
    /\ stop_called = FALSE
    /\ enq_at_stop = <<>>
    /\ PushSideUnused
    /\ JoinUnused

ProducerStep(p) ==
    \/ AddEventCall(p)
    \/ AddEventPut(p)
    \/ AddEventCount(p)
    \/ AddEventFallback(p)
    \/ AddEventsBatchCall(p)
    \/ AddEventsBatchLoop(p)
    \/ AddEventsBatchRetry(p)

ConsumerStep ==
    \/ GetEventCall
    \/ GetEvent
    \/ GetEventsBatchCall
    \/ GetEventsBatchFirst
    \/ GetEventsBatchDrain

NextQueue == (\E p \in Producers : ProducerStep(p)) \/ ConsumerStep

SpecQueue == InitQueue /\ [][NextQueue]_vars

\* the consumer thread keeps running: a call it can make or finish is made
FairSpecQueue == SpecQueue /\ WF_vars(ConsumerStep)

\* ------------------------------------------------------------------ SpecPull
\* run_pull_model: an unbounded manager, a producer in PULL mode, a pull
\* consumer on its own thread, and a stop() that may come at any moment
InitPull ==
    /\ events = <<>>
    /\ max_queue_size = 0
    /\ total_events_received = 0
    /\ total_events_queued = 0
    /\ total_events_pushed = 0
    /\ prod = [p \in Producers |-> IdleProd]
    /\ cons = IdleCons
    /\ next_id = 0
    /\ enq = <<>>
    /\ deq = <<>>
    /\ \E bs \in 1..MaxBatch : bp = IdleProducer(bs)
    /\ \E bs \in 1..MaxBatch : pull = NewPullConsumer(bs)
    /\ sink_calls = <<>>
    /\ sink_ok \in BOOLEAN
    /\ stop_called = FALSE
    /\ enq_at_stop = <<>>
    /\ PushSideUnused
    /\ JoinUnused

ProducerThreadStep ==
    \/ ProduceStart
    \/ ProduceEvents
    \/ SendBatch
    \/ AddEventsBatchLoop(ProducerThread)
    \/ AddEventPut(ProducerThread)
    \/ AddEventCount(ProducerThread)
    \/ SendBatchDone

PullThreadStep ==
    \/ PullStart
    \/ PullLoopRunning
    \/ PullLoopHasEvents
    \/ PullGet
    \/ PullBulkInsert
    \/ PullBulkInsertRaises
    \/ PullCount
    \/ PullExit
    \/ PullExitCount

NextPull == ProducerThreadStep \/ PullThreadStep \/ PullStop

SpecPull == InitPull /\ [][NextPull]_vars

\* both threads keep running as long as they have a step to take
FairSpecPull == SpecPull /\ WF_vars(ProducerThreadStep) /\ WF_vars(PullThreadStep)

\* ------------------------------------------------------------------ SpecPush
\* every sequence of at most n callbacks
SeqsUpTo(n) == UNION {[1..m -> Callbacks] : m \in 0..n}

\* a manager, with or without an executor, on which clients have registered
\* callbacks; one thread pushes while another registers and unregisters
InitPush ==
    /\ PullSideUnused
    /\ total_events_received = 0
    /\ total_events_pushed = 0
    /\ next_id = 1
    /\ sink_calls = <<>>
    /\ sink_ok = TRUE
    /\ push_event_callbacks \in SeqsUpTo(MaxReg)
    /\ push_batch_callbacks \in SeqsUpTo(MaxReg)
    /\ Registered <= MaxReg
    /\ push_lock = Free
    /\ push_executor \in BOOLEAN
    /\ pool_queue = <<>>
    /\ th = [t \in Threads |-> IdleThread]
    /\ pushes = <<>>
    /\ calls = <<>>
    /\ regops = 0
    /\ PushConsumerUnused
    /\ JoinUnused

PusherStep(t) ==
    \/ PushEventCall(t)
    \/ PushEventsBatchCall(t)
    \/ PushEventsBatchEmpty(t)
    \/ PushCopySecond(t)
    \/ PushDispatch(t)
    \/ PushCount(t)

ThreadStep(t) ==
    \/ RegistryLock(t)
    \/ RegistryDo(t)
    \/ SafeCallEnd(t)

NextPush ==
    \/ \E t \in Pushers : PusherStep(t)
    \/ \E w \in Workers : WorkerTake(w)
    \/ \E t \in Threads : ThreadStep(t)

SpecPush == InitPush /\ [][NextPush]_vars

\* ------------------------------------------------------------------ SpecPushConsumer
\* run_push_model (main.py lines 64-75): a manager, with or without an executor,
\* and a consumer; the main thread registers the consumer, pushes events and
\* calls finish()
InitPushConsumer ==
    /\ PullSideUnused
    /\ total_events_received = 0
    /\ total_events_pushed = 0
    /\ next_id = 1
    /\ sink_calls = <<>>
    /\ sink_ok \in BOOLEAN
    /\ push_event_callbacks = <<>>
    /\ push_batch_callbacks = <<>>
    /\ push_lock = Free
    /\ push_executor \in BOOLEAN
    /\ pool_queue = <<>>
    /\ th = [t \in Threads |-> IdleThread]
    /\ pushes = <<>>
    /\ calls = <<>>
    /\ regops = 0
    /\ \E bs \in 1..MaxBatch : pushc = NewPushConsumer(bs)
    /\ pushed_at_finish = <<>>
    /\ JoinUnused

MainStep(t) ==
    \/ ConsumerRegister(t)
    \/ PusherStep(t)
    \/ FinishLock(t)
    \/ FinishFlush(t)
    \/ FinishFlushRaises(t)

OnEventStep(t) ==
    \/ OnEventLock(t)
    \/ OnEventAppend(t)
    \/ OnEventThreshold(t)
    \/ OnEventThresholdRaises(t)
    \/ SafeCallEnd(t)

NextPushConsumer ==
    \/ \E t \in Pushers : MainStep(t)
    \/ \E w \in PoolWorkers : WorkerTake(w)
    \/ \E t \in Threads : OnEventStep(t)

SpecPushConsumer == InitPushConsumer /\ [][NextPushConsumer]_vars

\* ------------------------------------------------------------------ SpecJoin
\* a producer that calls add_event, a consumer that calls get_event, a thread
\* that calls task_done and a thread that calls join, on one manager with an
\* unbounded queue (the manager of run_pull_model, main.py line 21)
InitJoin ==
    /\ InitQueue
    /\ max_queue_size = 0

AddEventStep(p) ==
    \/ AddEventCall(p)
    \/ AddEventPut(p)
    \/ AddEventCount(p)

GetEventStep == GetEventCall \/ GetEvent

TaskDoneStep == TaskDoneCall \/ TaskDoneAck \/ TaskDoneCount

JoinStep == JoinCall \/ JoinReturn

NextJoin ==
    \/ \E p \in Producers : AddEventStep(p)
    \/ GetEventStep
    \/ TaskDoneStep
    \/ JoinStep

SpecJoin == InitJoin /\ [][NextJoin]_vars

\* the thread in join() is scheduled
FairSpecJoin == SpecJoin /\ WF_vars(JoinStep)

\* ------------------------------------------------------------------ SpecCounters
\* one manager with an unbounded queue, one per-event callback and no
\* executor, used in both ways at once: a producer calls add_event, a client
\* task_done, and a thread pushes events
InitCounters ==
    /\ InitPush
    /\ ~push_executor
    /\ push_event_callbacks = <<"rec">>
    /\ push_batch_callbacks = <<>>

NextCounters ==
    \/ \E p \in Producers : AddEventStep(p)
    \/ TaskDoneStep
    \/ \E t \in Pushers : PusherStep(t)
    \/ \E t \in Threads : SafeCallEnd(t)

SpecCounters == InitCounters /\ [][NextCounters]_vars

\* ------------------------------------------------------------------ SpecProducer
\* a producer of num_events events, in either mode and with any batch_size up
\* to num_events, on a manager with an unbounded queue, with or without an
\* executor, on which clients have registered callbacks
InitProducer ==
    /\ events = <<>>
    /\ max_queue_size = 0
    /\ total_events_received = 0
    /\ total_events_queued = 0
    /\ total_events_pushed = 0
    /\ prod = [p \in Producers |-> IdleProd]
    /\ cons = IdleCons
    /\ next_id = 0
    /\ enq = <<>>
    /\ deq = <<>>
    /\ \E bs \in 1..num_events, mode \in BOOLEAN :
          bp = [IdleProducer(bs) EXCEPT !.push_mode = mode]
    /\ pull = NewPullConsumer(1)
    /\ sink_calls = <<>>
    /\ sink_ok = TRUE
    /\ stop_called = FALSE
    /\ enq_at_stop = <<>>
    /\ push_event_callbacks \in SeqsUpTo(MaxReg)
    /\ push_batch_callbacks \in SeqsUpTo(MaxReg)
    /\ Registered <= MaxReg
    /\ push_lock = Free
    /\ push_executor \in BOOLEAN
    /\ pool_queue = <<>>
    /\ th = [t \in Threads |-> IdleThread]
    /\ pushes = <<>>
    /\ calls = <<>>
    /\ regops = 0
    /\ PushConsumerUnused
    /\ JoinUnused

\* produce_events in push mode, on thread t
PushProducerStep(t) ==
    \/ SendBatchPush(t)
    \/ PushCopySecond(t)
    \/ PushDispatch(t)
    \/ PushCount(t)
    \/ SendBatchPushDone(t)

NextProducer ==
    \/ ProducerThreadStep
    \/ \E t \in Pushers : PushProducerStep(t)
    \/ \E w \in Workers : WorkerTake(w)
    \/ \E t \in Threads : SafeCallEnd(t)

SpecProducer == InitProducer /\ [][NextProducer]_vars

\* ------------------------------------------------------------------ SpecStop
\* a manager with an unbounded queue, one per-event and one per-batch
\* callback, without an executor: a thread that calls add_event, one that
\* calls get_event, one that pushes, and stop() called at any moment
InitStop ==
    /\ InitPush
    /\ ~push_executor
    /\ push_event_callbacks = <<"rec">>
    /\ push_batch_callbacks = <<"rec">>

NextStop ==
    \/ \E p \in Producers : AddEventStep(p)
    \/ GetEventStep
    \/ \E t \in Pushers : PusherStep(t)
    \/ \E t \in Threads : SafeCallEnd(t)
    \/ ManagerStop

SpecStop == InitStop /\ [][NextStop]_vars

\* ------------------------------------------------------------------ SpecRegistry
\* a manager without registrations and without an executor; a client that
\* registers and unregisters callbacks, one call after the other, and a
\* thread that pushes
InitRegistry ==
    /\ InitPush
    /\ ~push_executor
    /\ push_event_callbacks = <<>>
    /\ push_batch_callbacks = <<>>

RegistryCall(t) ==
    \E list \in {"event", "batch"}, c \in Callbacks :
        RegisterCallback(t, list, c) \/ UnregisterCallback(t, list, c)

NextRegistry ==
    \/ \E t \in Registrars : RegistryCall(t) /\ pushes = <<>>
    \/ \E t \in Pushers : PusherStep(t)
    \/ \E t \in Threads : SafeCallEnd(t)

SpecRegistry == InitRegistry /\ [][NextRegistry]_vars

\* ------------------------------------------------------------------ SpecMain
\* main() (main.py lines 96-113) runs the PULL model and the PUSH model, each
\* on a manager and a consumer of its own: a run is a run of the one or of
\* the other, and the side that is not run stays as it was constructed
InitMain == InitPull \/ InitPushConsumer

NextMain ==
    \/ PushSideUnused /\ NextPull
    \/ PullSideUnused /\ NextPushConsumer

SpecMain == InitMain /\ [][NextMain]_vars

\* ------------------------------------------------------------------ SpecPushThreads
\* the threads that push at the same time
ConcurrentPushers == {"t1", "t2"}

\* a manager, with or without an executor, on which clients have registered
\* callbacks, and two threads that push
NextPushThreads ==
    \/ \E t \in ConcurrentPushers : PusherStep(t)
    \/ \E w \in Workers : WorkerTake(w)
    \/ \E t \in Threads : SafeCallEnd(t)

SpecPushThreads == InitPush /\ [][NextPushThreads]_vars

\* ------------------------------------------------------------------ claims
\* C1: on an unbounded queue the events returned to the single consumer, then
\* the ones it holds in an unfinished get_events_batch, then the queue's
\* contents, are at every moment exactly the events enqueued, in enqueue
\* order; and whatever has been enqueued is eventually all returned.
C1_PullFifoExactlyOnce ==
    /\ [](max_queue_size = 0 => enq = deq \o cons.batch \o events)
    /\ [](max_queue_size = 0 => <>(deq = enq))

\* C1 witness: three events went through an unbounded queue, two of them
\* returned by one get_events_batch call
C1_Witness ==
    /\ max_queue_size = 0
    /\ Len(deq) = 3
    /\ deq = enq
    /\ Len(cons.result) = 2

\* the add_event calls that have put their event and not yet counted it
PendingCounts == Cardinality({p \in Producers : prod[p].pc = "ae_count"})

\* C6: an add_event that found the queue full and fell back to the blocking
\* put either enqueued its event exactly once, or raised queue.Full without
\* enqueuing it; received and queued count exactly the events enqueued (one
\* increment per enqueued event, made by the call that enqueued it), so a
\* call that raised has changed neither the queue nor the counters.
C6_FallbackPutOnceOrFull ==
    /\ total_events_received = Len(enq) - PendingCounts
    /\ total_events_queued = Len(enq) - PendingCounts
    /\ \A e \in Range(enq) : Count(enq, e) = 1
    /\ \A p \in Producers :
          (prod[p].pc = "idle" /\ prod[p].fellback) =>
             /\ prod[p].result \in {"ok", "Full"}
             /\ (prod[p].result = "ok" => Count(enq, prod[p].ev) = 1)
             /\ (prod[p].result = "Full" => Count(enq, prod[p].ev) = 0)

\* C6 witness: on a bounded queue a non-blocking add_event fell back and
\* succeeded, after an earlier event was refused with queue.Full
C6_Witness ==
    \E p \in Producers :
       /\ max_queue_size > 0
       /\ prod[p].pc = "idle" /\ prod[p].fellback /\ ~prod[p].block
       /\ prod[p].result = "ok"
       /\ \E e \in 1..(prod[p].ev - 1) : e \notin Range(enq)
       /\ total_events_received = Len(enq)

\* C7: when start_consuming has returned after a stop(), with a Sink that
\* does not fail, every event enqueued before the stop() call has been passed
\* to the Sink, and events_processed counts every event passed to the Sink.
C7_StopDoesNotTruncate ==
    (sink_ok /\ stop_called /\ pull.pc = "returned") =>
       /\ \A e \in Range(enq_at_stop) : e \in Range(Stored(sink_calls))
       /\ pull.events_processed = Len(Stored(sink_calls))

\* C7 witness: stop() came while events were enqueued, more were enqueued
\* after it, and start_consuming returned after a final partial flush
C7_Witness ==
    /\ sink_ok /\ stop_called /\ pull.pc = "returned"
    /\ Len(enq_at_stop) >= 2
    /\ Len(enq) > Len(enq_at_stop)
    /\ sink_calls /= <<>>
    /\ sink_calls[Len(sink_calls)].site = "exit"

\* C8: once stop() has been called and the producer has finished,
\* start_consuming eventually ends, whatever
\* the interleaving of stop() with the worker thread, and it returns only
\* with every dequeued event flushed.
C8_StopAlwaysTerminates ==
    /\ []((stop_called /\ bp.pc = "done") => <>(pull.pc \in {"returned", "raised"}))
    /\ [](pull.pc = "returned" => Stored(sink_calls) = deq)

\* C10: a pull consumer with batch_size >= 1 that has drained n events and
\* returned made n \div batch_size Sink calls in its loop, each with the next
\* batch_size events in dequeue order, then one call on exit with the
\* n % batch_size remaining events if there are any, and events_processed = n.
C10_PullBatching ==
    pull.pc = "returned" =>
       LET n == Len(deq)
           bs == pull.batch_size
           k == n \div bs
           r == n % bs
       IN /\ bs >= 1
          /\ Len(sink_calls) = k + (IF r > 0 THEN 1 ELSE 0)
          /\ \A j \in 1..k :
                sink_calls[j] = [batch |-> SubSeq(deq, (j - 1) * bs + 1, j * bs),
                                 site |-> "loop"]
          /\ (r > 0 => sink_calls[k + 1] = [batch |-> SubSeq(deq, k * bs + 1, n),
                                            site |-> "exit"])
          /\ pull.events_processed = n

\* C10 witness: batch_size 2 and three events drained: one full batch in the
\* loop and the remaining event on exit
C10_Witness ==
    /\ pull.pc = "returned"
    /\ pull.batch_size = 2
    /\ Len(deq) = 3
    /\ Len(sink_calls) = 2

\* ------------------------------------------------------------------ claims on push
\* the calls of invocation inv that have begun, and those an executor still holds
Begun(inv) == Count(calls, inv)

Submitted(inv) == Count(pool_queue, inv)

\* C2 (as amended): once a push made with no per-batch callback registered
\* has returned, each callback has been invoked for each event of the push
\* once per registration it had when the push copied the registry, a callback
\* registered twice therefore twice: all of these calls have begun when there
\* is no executor, and with one each of them has begun or is held by the
\* executor.
C2_OncePerRegistration ==
    \A k \in DOMAIN pushes :
        (pushes[k].state = "returned" /\ pushes[k].bcbs = <<>>) =>
            \A c \in Callbacks, i \in DOMAIN pushes[k].evs :
                LET inv == Invocation(k, c, "event", <<pushes[k].evs[i]>>) IN
                /\ Begun(inv) + Submitted(inv) = Count(pushes[k].ecbs, c)
                /\ ~push_executor => Begun(inv) = Count(pushes[k].ecbs, c)

\* C2 as stated: every registered callback is invoked exactly once per event
C2_ExactlyOncePerCallback ==
    \A k \in DOMAIN pushes :
        (pushes[k].state = "returned" /\ pushes[k].bcbs = <<>>) =>
            \A c \in Range(pushes[k].ecbs), i \in DOMAIN pushes[k].evs :
                LET inv == Invocation(k, c, "event", <<pushes[k].evs[i]>>) IN
                Begun(inv) + Submitted(inv) = 1

C2_Witness ==
    \E k \in DOMAIN pushes :
        /\ pushes[k].state = "returned"
        /\ pushes[k].bcbs = <<>>
        /\ pushes[k].ecbs = <<"rec", "rec">>
        /\ Len(pushes[k].evs) = 2
        /\ push_executor
        /\ pool_queue = <<>>
        /\ Len(calls) = 4

\* the invocations of push k according to the registries as they were at the
\* instant of its first copy
PlanAt(k) == PlanOf(k, pushes[k].at_b, pushes[k].at_e, pushes[k].evs)

\* C3: a push that has made its copies holds both registries as they were at
\* one instant, the instant of its first copy; every invocation made for the
\* push is one of the invocations these registries call for, and once the push
\* has returned and the executor holds none of its calls, exactly these
\* invocations have been made, whatever has been registered or unregistered
\* since.
C3_SnapshotIsolation ==
    \A k \in DOMAIN pushes :
        pushes[k].state \in {"dispatch", "returned"} =>
            LET plan == PlanAt(k)
                made == {i \in DOMAIN calls : calls[i].k = k}
            IN /\ pushes[k].ecbs = pushes[k].at_e
               /\ pushes[k].bcbs = pushes[k].at_b
               /\ \A i \in made : calls[i] \in Range(plan)
               /\ (pushes[k].state = "returned" /\ \A i \in DOMAIN pool_queue : pool_queue[i].k /= k) =>
                     \A j \in DOMAIN plan : Begun(plan[j]) = Count(plan, plan[j])

C3_Witness ==
    \E k \in DOMAIN pushes :
        /\ pushes[k].state = "returned"
        /\ pool_queue = <<>>
        /\ pushes[k].ecbs /= <<>>
        /\ pushes[k].bcbs /= <<>>
        /\ push_event_callbacks /= pushes[k].ecbs
        /\ Len(calls) = Len(PlanAt(k))

\* C4: the thread that holds the registry lock is copying the registries or
\* changing one, never dispatching to a callback, and its next step, which
\* releases the lock, can be taken at once; a thread inside a callback finds
\* the lock free unless a thread is in such a section; and every thread that
\* is inside a call of the manager can take a step, so that no state is a
\* deadlock.
C4_LockNotHeldInCallbacks ==
    /\ push_lock \in Threads \cup {Free}
    /\ \A t \in Threads :
          /\ push_lock = t =>
                /\ th[t].pc \in {"p_copy2", "r_do"}
                /\ ENABLED (PushCopySecond(t) \/ RegistryDo(t))
          /\ th[t].pc \in {"cb_run", "cb_exit", "p_dispatch"} => push_lock /= t
          /\ th[t].pc /= "idle" => ENABLED (PusherStep(t) \/ ThreadStep(t))

C4_Witness ==
    \E t \in Threads, u \in Threads :
        /\ t /= u
        /\ th[t].pc = "cb_run"
        /\ th[u].pc = "r_do"
        /\ th[u].cb = NoCb
        /\ push_lock = u

\* C5: no push ends with an exception, and a returned push whose copies of the
\* registries hold a callback that raises has had each of its invocations,
\* those ordered before the raising callback and those after it, made or
\* submitted to the executor.
C5_RaisingCallbackContained ==
    \A k \in DOMAIN pushes :
        /\ pushes[k].state /= "raised"
        /\ (pushes[k].state = "returned" /\ \E c \in Range(pushes[k].bcbs \o pushes[k].ecbs) : Raises(c)) =>
              LET plan == Plan(k) IN
              \A j \in DOMAIN plan : Begun(plan[j]) + Submitted(plan[j]) = Count(plan, plan[j])

C5_Witness ==
    \E k \in DOMAIN pushes :
        /\ pushes[k].state = "returned"
        /\ pushes[k].ecbs = <<"bad", "rec">>
        /\ Len(pushes[k].evs) = 2
        /\ ~push_executor
        /\ Len(calls) = 4

\* ------------------------------------------------------------------ claims on the push consumer
\* the events that have been passed to a _bulk_insert call, stored or not
Handed == Range(Stored(sink_calls)) \cup Range(Stored(pushc.failed))

\* C9: once finish() has returned, every event of a push that had returned
\* before finish() was called has been passed to the Sink, and the
\* consumer's batch is empty as long as no push has been called since.
C9_FinishDrains ==
    pushc.finish = "returned" =>
        /\ Range(pushed_at_finish) \subseteq Handed
        /\ (/\ \A k \in DOMAIN pushes : pushes[k].state = "returned"
            /\ Pushed(pushes) = pushed_at_finish) => pushc.event_batch = <<>>

\* the _bulk_insert calls the push consumer has made, stored or raised
SinkCallsMade == sink_calls \o pushc.failed

\* C11: the push consumer's batch holds fewer than batch_size events whenever
\* the batch lock is free, also with callbacks running on two pool workers at
\* once; every _bulk_insert call made at the threshold gets exactly batch_size
\* events; finish() makes at most one call, with r events, 0 < r < batch_size.
C11_ThresholdAtomic ==
    /\ pushc.batch_lock = Free => Len(pushc.event_batch) < pushc.batch_size
    /\ \A i \in DOMAIN SinkCallsMade :
          /\ SinkCallsMade[i].site = "threshold" =>
                Len(SinkCallsMade[i].batch) = pushc.batch_size
          /\ SinkCallsMade[i].site = "finish" =>
                /\ Len(SinkCallsMade[i].batch) \in 1..(pushc.batch_size - 1)
                /\ \A j \in DOMAIN SinkCallsMade : SinkCallsMade[j].site = "finish" => j = i

C11_Witness ==
    /\ push_executor
    /\ th["w1"].pc = "c_check"
    /\ th["w1"].cb = ConsumerCb
    /\ BatchFull(pushc.event_batch)
    /\ th["w2"].pc = "cb_run"
    /\ th["w2"].cb = ConsumerCb

\* ------------------------------------------------------------------ claims on concurrent pushes
\* C12: without an executor, no two threads are inside the same callback at
\* the same time.
C12_CallbackNeverOverlaps ==
    ~push_executor =>
        \A t \in Threads, u \in Threads :
            (t /= u /\ th[t].pc = "cb_run" /\ th[u].pc = "cb_run") => th[t].cb /= th[u].cb

\* ------------------------------------------------------------------ claims on the order of callbacks
\* the invocations of push k that have begun, those of one kind, in order
CallsOf(k, kind) == SelectSeq(calls, LAMBDA c : c.k = k /\ c.kind = kind)

Min(a, b) == IF a <= b THEN a ELSE b

\* get_events_batch has returned and nothing was put since it was called
BatchReturnedAlone == cons.pc = "idle" /\ cons.size >= 1 /\ Len(enq) = cons.enq0

\* C14: a get_events_batch(maxSize, timeout) call during which nothing is put
\* returns the first min(m, maxSize) of the m >= 1 events it found, in queue
\* order, and leaves the others in the queue; on an empty queue it returns an
\* empty list at the timeout and the queue is unchanged; once it holds an
\* event it never waits: its next step can always be taken.
C14_BatchIsQueuePrefix ==
    /\ BatchReturnedAlone =>
          LET m == Len(cons.q0)
              n == Min(m, cons.size)
          IN IF m >= 1
             THEN cons.result = SubSeq(cons.q0, 1, n) /\ events = SubSeq(cons.q0, n + 1, m)
             ELSE cons.result = <<>> /\ events = cons.q0 /\ cons.timeout
    /\ cons.pc = "gb_drain" => ENABLED GetEventsBatchDrain

C14_Witness ==
    /\ BatchReturnedAlone
    /\ Len(cons.q0) = 3
    /\ cons.size = 2
    /\ cons.result = SubSeq(cons.q0, 1, 2)

C14_WitnessEmpty ==
    BatchReturnedAlone /\ cons.q0 = <<>> /\ cons.result = <<>> /\ enq /= <<>>

\* ------------------------------------------------------------------ claims on the Sink
\* every _bulk_insert call a consumer has made: the ones that stored their
\* batch, the ones of the push consumer that raised, and the one that ended
\* start_consuming by raising
AllSinkCalls ==
    SinkCallsMade \o (IF pull.pc = "raised"
                      THEN <<[batch |-> pull.batch, site |-> "raised"]>> ELSE <<>>)

\* the batch_size of the consumer that called the Sink
SinkBatchSize(c) == IF c.site \in {"threshold", "finish"} THEN pushc.batch_size
                    ELSE pull.batch_size

\* C15: no event is in two Sink calls of a consumer, also when a call raised
\* and when callbacks run concurrently; no Sink call has an empty batch, a
\* batch flushed at the threshold has exactly batch_size events and no batch
\* has more.
C15_NoEventInTwoSinkCalls ==
    /\ \A i \in DOMAIN Stored(AllSinkCalls), j \in DOMAIN Stored(AllSinkCalls) :
          i /= j => Stored(AllSinkCalls)[i] /= Stored(AllSinkCalls)[j]
    /\ \A i \in DOMAIN AllSinkCalls :
          LET c == AllSinkCalls[i] IN
          /\ c.batch /= <<>>
          /\ Len(c.batch) <= SinkBatchSize(c)
          /\ c.site \in {"threshold", "loop"} => Len(c.batch) = SinkBatchSize(c)

\* the push consumer, called from two pool workers, has stored a batch and
\* has had a Sink call raise
C15_Witness ==
    /\ push_executor
    /\ sink_calls /= <<>>
    /\ pushc.failed /= <<>>

\* the pull consumer has stored a batch and its next Sink call has raised
C15_WitnessPull ==
    /\ pull.pc = "raised"
    /\ sink_calls /= <<>>

\* the pushes that delivered event e to the consumer's callback
PushesOf(e) == {k \in DOMAIN pushes : e \in Range(pushes[k].evs)}

\* C16: a Sink error reaches the code that drives the consumer: when
\* _bulk_insert raised in start_consuming the call has ended by raising, when
\* it raised in finish() finish() has raised, and when it raised in the
\* threshold flush of a callback run by the pushing thread, the push that
\* delivered the event which filled the batch does not return normally.
C16_SinkErrorPropagates ==
    /\ pull.pc = "raised" => ~sink_ok
    /\ \A i \in DOMAIN pushc.failed :
          LET c == pushc.failed[i] IN
          /\ c.site = "finish" => pushc.finish = "raised"
          /\ (c.site = "threshold" /\ ~push_executor) =>
                \A k \in PushesOf(c.batch[Len(c.batch)]) : pushes[k].state /= "returned"

\* ------------------------------------------------------------------ claims on task_done and join
\* C17: join() returns only when as many acknowledgements have succeeded as
\* events were ever put; a join() that waits while an event is unacknowledged
\* keeps waiting; and a join() that waits returns once every event put is
\* acknowledged and stays so.
C17_JoinAwaitsAcks ==
    /\ [](jn.pc = "returned" => jn.acked = jn.puts)
    /\ [][(jn.pc = "waiting" /\ unfinished_tasks > 0) => jn'.pc = "waiting"]_vars
    /\ ((jn.pc = "waiting" /\ [](unfinished_tasks = 0)) ~> jn.pc = "returned")

\* join() has returned after two events were put and acknowledged
C17_Witness ==
    /\ jn.pc = "returned"
    /\ jn.puts >= 2
    /\ jn.acked = jn.puts

\* C18: acknowledgements beyond the events that were dequeued are ignored:
\* never more acknowledgements succeed than events were returned by
\* get_event, and join() never returns while an event is in the queue.
C18_ExcessAcksIgnored ==
    /\ acked <= Len(deq)
    /\ jn.pc = "returned" => jn.events = <<>>

\* C20: no step makes a counter smaller: the producer's events_produced, the
\* manager's received, queued and pushed totals, the consumers'
\* events_processed.
C20_CountersMonotonic ==
    [][/\ bp'.events_produced >= bp.events_produced
       /\ total_events_received' >= total_events_received
       /\ total_events_queued' >= total_events_queued
       /\ total_events_pushed' >= total_events_pushed
       /\ pull'.events_processed >= pull.events_processed
       /\ pushc'.events_processed >= pushc.events_processed]_vars

\* ------------------------------------------------------------------ claims on add_events_batch
\* C19: the events of add_events_batch calls are put in list order and none
\* twice (the lists hold increasing fresh ids); the retry is made once, as a
\* blocking add_event with a timeout; and a call that ends with queue.Full has
\* gone through its whole list: the failure of one event leaves no later
\* event unattempted.
C19_BatchFailureDoesNotStopRest ==
    /\ \A i \in DOMAIN enq, j \in DOMAIN enq : i < j => enq[i] < enq[j]
    /\ \A p \in Producers :
          /\ prod[p].retry => (prod[p].inbatch /\ prod[p].block /\ prod[p].timeout)
          /\ (prod[p].pc = "idle" /\ prod[p].result = "Full" /\ prod[p].batch /= <<>>) =>
                prod[p].idx = Len(prod[p].batch)

\* ------------------------------------------------------------------ claims on the counters
\* C21: the counters move with the queue: in every state received and queued
\* (read under _queue_lock by get_total_received / get_total_queued) count
\* every event that has been put into the queue, whether it is still queued
\* or already dequeued.
C21_CountedWithInsertion ==
    /\ total_events_received >= Len(enq)
    /\ total_events_queued >= Len(enq)

\* ------------------------------------------------------------------ claims on push_event and push_events_batch
\* push k returns in this step
Returns(k) == k \in DOMAIN pushes /\ pushes[k].state /= "returned" /\ pushes'[k].state = "returned"

\* C22: without an executor, a push_event(event) call invokes the per-batch
\* callbacks of its copy with the one-element batch [event], all of them
\* before the first per-event callback, which gets the event; and the step in
\* which it returns adds exactly 1 to received and 1 to pushed, after all
\* these invocations.
C22_PushEventBatchFirst ==
    /\ [](~push_executor =>
            \A k \in DOMAIN pushes :
                pushes[k].op = "push_event" =>
                    /\ Len(pushes[k].evs) = 1
                    /\ \A i \in DOMAIN calls, j \in DOMAIN calls :
                          (calls[i].k = k /\ calls[j].k = k
                             /\ calls[i].kind = "batch" /\ calls[j].kind = "event") => i < j
                    /\ \A i \in DOMAIN CallsOf(k, "batch") :
                          CallsOf(k, "batch")[i].pay = pushes[k].evs
                    /\ \A i \in DOMAIN CallsOf(k, "event") :
                          CallsOf(k, "event")[i].pay = pushes[k].evs
                    /\ CallsOf(k, "event") /= <<>> =>
                          Len(CallsOf(k, "batch")) = Len(pushes[k].bcbs)
                    /\ pushes[k].state = "returned" =>
                          /\ Len(CallsOf(k, "batch")) = Len(pushes[k].bcbs)
                          /\ Len(CallsOf(k, "event")) = Len(pushes[k].ecbs))
    /\ [][\A k \in DOMAIN pushes :
            (pushes[k].op = "push_event" /\ Returns(k)) =>
                /\ total_events_received' = total_events_received + 1
                /\ total_events_pushed' = total_events_pushed + 1]_vars

\* a push_event call with a per-batch and a per-event callback has returned
C22_Witness ==
    \E k \in DOMAIN pushes :
        /\ ~push_executor
        /\ pushes[k].op = "push_event"
        /\ pushes[k].state = "returned"
        /\ Len(pushes[k].bcbs) = 1
        /\ Len(pushes[k].ecbs) = 1
        /\ Len(calls) = 2
        /\ total_events_pushed = 1

\* the invocations of push k the executor holds, those of one kind
HeldOf(k, kind) == SelectSeq(pool_queue, LAMBDA c : c.k = k /\ c.kind = kind)

\* the invocations of push k made or handed to the executor, those of one kind
InvocationsOf(k, kind) == CallsOf(k, kind) \o HeldOf(k, kind)

RECURSIVE Digits(_)
Digits(n) == IF n < 10 THEN <<n>> ELSE Digits(n \div 10) \o <<n % 10>>

\* format(n, "010d"): the digits of n, with zeros in front up to ten places
ZeroPadded(n) ==
    IF Len(Digits(n)) >= 10 THEN Digits(n)
    ELSE [i \in 1..(10 - Len(Digits(n))) |-> 0] \o Digits(n)

\* producer.py line 42: f"TXN{event_id:010d}"
TransactionId(event_id) == [prefix |-> "TXN", digits |-> ZeroPadded(event_id)]

\* the events of a sequence of lists, in order
RECURSIVE Flatten(_)
Flatten(ls) == IF ls = <<>> THEN <<>> ELSE Head(ls) \o Flatten(Tail(ls))

\* the lists of the push_events_batch calls made so far
PushedLists == [k \in DOMAIN pushes |-> pushes[k].evs]

IsPrefixOf(s, t) == Len(s) <= Len(t) /\ SubSeq(t, 1, Len(s)) = s

\* C24: the events handed to the Dispatcher are 0, 1, 2, ... in this order,
\* with pairwise distinct transaction_ids; every transport call gets
\* batch_size events, except that the last one, made when all events are
\* generated, may get fewer but not none; the calls are push_events_batch
\* calls in push mode and add_events_batch calls otherwise; and when
\* produce_events has returned, all num_events events were handed over,
\* events_produced = num_events and the Dispatcher's received counter is
\* num_events.
C24_ProducerBatches ==
    LET handed == Flatten(bp.sent) IN
    /\ handed = SeqFromTo(0, Len(handed))
    /\ \A a \in Range(handed), b \in Range(handed) :
          a /= b => TransactionId(a) /= TransactionId(b)
    /\ \A i \in DOMAIN bp.sent :
          \/ Len(bp.sent[i]) = bp.batch_size
          \/ /\ i = Len(bp.sent)
             /\ bp.i = num_events
             /\ Len(bp.sent[i]) >= 1
             /\ Len(bp.sent[i]) < bp.batch_size
    /\ IF bp.push_mode
       THEN /\ PushedLists = bp.sent
            /\ \A k \in DOMAIN pushes : pushes[k].op = "push_events_batch"
            /\ enq = <<>>
       ELSE /\ pushes = <<>>
            /\ IsPrefixOf(enq, handed)
            /\ bp.pc /= "sending" => enq = handed
    /\ bp.pc = "done" =>
          /\ handed = SeqFromTo(0, num_events)
          /\ bp.events_produced = num_events
          /\ total_events_received = num_events

\* produce_events has returned in push mode after a last call with fewer
\* than batch_size events
C24_Witness ==
    /\ bp.pc = "done"
    /\ bp.push_mode
    /\ Len(bp.sent) >= 2
    /\ Len(bp.sent[Len(bp.sent)]) < bp.batch_size
    /\ total_events_pushed = num_events

C24_WitnessPull ==
    /\ bp.pc = "done"
    /\ ~bp.push_mode
    /\ Len(bp.sent) >= 2
    /\ Len(bp.sent[Len(bp.sent)]) < bp.batch_size
    /\ total_events_queued = num_events

\* ------------------------------------------------------------------ claims on stop
\* C25: stop() sets the flag and changes nothing else of the manager: the
\* queue, the registries and the counters stay; the flag stays set; and the
\* operations go on as before: with the flag set an add_event still puts its
\* event at the tail and counts it, a get_event still takes the head, a push
\* still takes its copies, invokes its callbacks and counts its events, and
\* none of them is refused.
C25_StopOnlySetsFlag ==
    /\ [][stopped' /= stopped =>
            /\ stopped'
            /\ UNCHANGED <<dvars, qvars, pushvars, acked, td, jn, reg, decrements>>]_vars
    /\ [][stopped => stopped']_vars
    /\ [][stopped =>
            /\ \A p \in Producers :
                  /\ (prod[p].pc = "ae_put" /\ prod'[p].pc = "ae_count") =>
                        events' = Append(events, prod[p].ev)
                  /\ (prod[p].pc = "ae_count" /\ prod'[p].pc /= "ae_count") =>
                        /\ total_events_received' = total_events_received + 1
                        /\ total_events_queued' = total_events_queued + 1
            /\ (cons.pc = "ge_get" /\ cons'.pc = "idle" /\ events /= <<>>) =>
                  /\ cons'.result = <<Head(events)>>
                  /\ events' = Tail(events)
            /\ \A k \in DOMAIN pushes :
                  Returns(k) =>
                     /\ Len(CallsOf(k, "batch")) = Len(push_batch_callbacks)
                     /\ Len(CallsOf(k, "event")) = Len(push_event_callbacks) * Len(pushes[k].evs)
                     /\ total_events_received' = total_events_received + Len(pushes[k].evs)
                     /\ total_events_pushed' = total_events_pushed + Len(pushes[k].evs)]_vars
    /\ [](stopped =>
            /\ \A p \in Producers :
                  /\ (prod[p].pc = "idle" /\ next_id <= MaxEvents) => ENABLED AddEventCall(p)
                  /\ prod[p].pc = "ae_put" => ENABLED AddEventPut(p)
                  /\ prod[p].pc = "ae_count" => ENABLED AddEventCount(p)
            /\ cons.pc = "idle" => ENABLED GetEventCall
            /\ (cons.pc = "ge_get" /\ (events /= <<>> \/ cons.timeout)) => ENABLED GetEvent
            /\ \A t \in Pushers :
                  /\ (th[t].pc = "idle" /\ PushesBy(t) < MaxPush /\ push_lock = Free) =>
                        ENABLED PushEventCall(t) /\ ENABLED PushEventsBatchCall(t)
                  /\ th[t].pc = "p_copy2" => ENABLED PushCopySecond(t)
                  /\ th[t].pc = "p_dispatch" => ENABLED (PushDispatch(t) \/ PushCount(t)))

\* after stop() an event was put, a later event of the same producer was
\* dequeued, and a push called later still has returned: ids are handed out in
\* call order, so all three calls were made after the stop
C25_Witness ==
    /\ stopped
    /\ \E e1 \in Range(enq) \ Range(enq_at_stop), e2 \in Range(deq), k \in DOMAIN pushes :
          /\ e1 < e2
          /\ pushes[k].state = "returned"
          /\ pushes[k].evs /= <<>>
          /\ e2 < pushes[k].evs[1]
          /\ Len(CallsOf(k, "event")) = Len(pushes[k].evs)

\* ------------------------------------------------------------------ C26
\* the registry a call names, as the call found it
BeforeOf(call) == IF call.list = "event" THEN call.event_before ELSE call.batch_before

\* the call unregisters a callback that its registry did not hold
UnregistersAbsent(call) == call.op = "unregister" /\ call.c \notin Range(BeforeOf(call))

\* C26: unregistering a callback that is not in the registry changes nothing
\* and raises nothing: the step of such a call leaves both registries, the
\* queue, the counters and every thread as they were, the caller included,
\* which is back in its own code with the lock released; and as long as no
\* other call is made the registries are those the call found.
C26_UnregisterAbsentIsNoOp ==
    /\ [][(reg' /= reg /\ UnregistersAbsent(reg')) =>
            /\ UNCHANGED <<push_event_callbacks, push_batch_callbacks>>
            /\ UNCHANGED <<dvars, qvars, th, pushes, calls, pool_queue>>
            /\ push_lock' = Free
            /\ \A t \in Registrars : th'[t].pc = "idle"]_vars
    /\ [](UnregistersAbsent(reg) =>
            /\ push_event_callbacks = reg.event_before
            /\ push_batch_callbacks = reg.batch_before)

\* a client has unregistered "rec" from a per-event registry that held "bad"
\* alone, and the push made afterwards has invoked "bad"
C26_Witness ==
    /\ reg.op = "unregister"
    /\ reg.list = "event"
    /\ reg.c = "rec"
    /\ reg.event_before = <<"bad">>
    /\ \E k \in DOMAIN pushes :
           /\ pushes[k].state = "returned"
           /\ pushes[k].ecbs = <<"bad">>

\* ------------------------------------------------------------------ C30
\* the registry a call names, as it is now
ListOf(call) == IF call.list = "event" THEN push_event_callbacks ELSE push_batch_callbacks

\* the registry a call does not name is as the call found it
OtherListKept(call) ==
    IF call.list = "event" THEN push_batch_callbacks = call.batch_before
    ELSE push_event_callbacks = call.event_before

\* position i holds the earliest registration of c in list
Earliest(list, c, i) == list[i] = c /\ \A j \in 1..(i - 1) : list[j] /= c

\* C30: the registries are lists with multiplicity. A register call appends
\* one registration of its callback; an unregister call of a registered
\* callback takes away exactly one registration of it, the earliest, and
\* leaves every other registration in place and in order; and a push that has
\* returned has invoked every callback, for the batch and for every event of
\* it, as many times as the callback is registered: k times after k
\* registrations, k - 1 times after one unregistration, and no more once it
\* has been unregistered k times.
C30_RegistrationsCount ==
    /\ [](reg.op = "register" =>
            /\ ListOf(reg) = BeforeOf(reg) \o <<reg.c>>
            /\ Count(ListOf(reg), reg.c) = Count(BeforeOf(reg), reg.c) + 1
            /\ OtherListKept(reg))
    /\ []((reg.op = "unregister" /\ reg.c \in Range(BeforeOf(reg))) =>
            /\ \E i \in DOMAIN BeforeOf(reg) :
                   /\ Earliest(BeforeOf(reg), reg.c, i)
                   /\ ListOf(reg) = SubSeq(BeforeOf(reg), 1, i - 1)
                                      \o SubSeq(BeforeOf(reg), i + 1, Len(BeforeOf(reg)))
            /\ Count(ListOf(reg), reg.c) = Count(BeforeOf(reg), reg.c) - 1
            /\ OtherListKept(reg))
    /\ [](\A k \in DOMAIN pushes :
            pushes[k].state = "returned" =>
                \A c \in Callbacks :
                    /\ pushes[k].evs /= <<>> =>
                           Begun(Invocation(k, c, "batch", pushes[k].evs))
                               = Count(push_batch_callbacks, c)
                    /\ \A i \in DOMAIN pushes[k].evs :
                           Begun(Invocation(k, c, "event", <<pushes[k].evs[i]>>))
                               = Count(push_event_callbacks, c))

\* "rec" was registered twice for events, around "bad"; a client has
\* unregistered it once, and the push of two events made afterwards has
\* invoked "bad" and then "rec" once for each event
C30_Witness ==
    /\ reg.op = "unregister"
    /\ reg.list = "event"
    /\ reg.c = "rec"
    /\ reg.event_before = <<"rec", "bad", "rec">>
    /\ \E k \in DOMAIN pushes :
           /\ pushes[k].state = "returned"
           /\ Len(pushes[k].evs) = 2
           /\ pushes[k].ecbs = <<"bad", "rec">>
           /\ Len(CallsOf(k, "event")) = 4

\* ------------------------------------------------------------------ C27
\* an invocation of push k is still to be finished: the executor holds it, or
\* a thread is inside the callback
Undelivered(k) ==
    \/ \E i \in DOMAIN pool_queue : pool_queue[i].k = k
    \/ \E t \in Threads : th[t].cb /= NoCb /\ th[t].k = k

\* C27: the events of a push are counted in pushed and received only when
\* every callback of the push's copies has finished its invocations for them,
\* with an executor as well as without one: a push that has counted its events
\* has made all the invocations of its plan, and none of them is held by the
\* executor or still running.
C27_CountedAfterDelivery ==
    \A k \in DOMAIN pushes :
        (pushes[k].state = "returned" /\ pushes[k].evs /= <<>>) =>
            /\ ~Undelivered(k)
            /\ Len(CallsOf(k, "batch")) + Len(CallsOf(k, "event")) = Len(Plan(k))

\* ------------------------------------------------------------------ C28
\* task_done has never been called on the manager
TaskDoneNeverCalled == td = IdleAck /\ acked = 0

\* C28: whenever the counters are read under _queue_lock, queued is not
\* negative and received = pushed + queued + d, d being the number of
\* task_done acknowledgements that decremented queued; so received is at
\* least pushed + queued, and equal to it while task_done has never been
\* called.
C28_CounterBalance ==
    /\ total_events_queued >= 0
    /\ total_events_received = total_events_pushed + total_events_queued + decrements
    /\ total_events_received >= total_events_pushed + total_events_queued
    /\ TaskDoneNeverCalled => total_events_received = total_events_pushed + total_events_queued

\* events have been pushed, events are counted as queued, an acknowledgement
\* has decremented queued and another found it at 0
C28_Witness ==
    /\ total_events_pushed >= 1
    /\ total_events_queued >= 1
    /\ decrements >= 1
    /\ acked > decrements
    /\ td.pc = "idle"

\* ------------------------------------------------------------------ C29
\* the events of the batches whose insertion raised
RECURSIVE FailedEvents(_)
FailedEvents(fs) ==
    IF fs = <<>> THEN <<>> ELSE FailedEvents(SubSeq(fs, 1, Len(fs) - 1)) \o fs[Len(fs)].batch

\* _bulk_insert raises in this step, at the threshold or in finish()
FlushRaises == Len(pushc'.failed) = Len(pushc.failed) + 1

\* C29: when the Sink raises during a flush of the push consumer, the step
\* that raises leaves the accumulation batch empty, events_processed and the
\* Sink as they were and the batch lock released, the failed batch being the
\* batch as it was; afterwards the events of a failed batch are neither
\* stored nor in the batch, events_processed counts the stored events only,
\* and the batch holds only events received since.
C29_FailedFlushDropsBatch ==
    /\ [][FlushRaises =>
            /\ pushc'.failed[Len(pushc'.failed)].batch = pushc.event_batch
            /\ pushc.event_batch /= <<>>
            /\ pushc'.event_batch = <<>>
            /\ pushc'.events_processed = pushc.events_processed
            /\ pushc'.batch_lock = Free
            /\ sink_calls' = sink_calls]_vars
    /\ [](/\ Range(FailedEvents(pushc.failed)) \cap Range(Stored(sink_calls)) = {}
          /\ Range(FailedEvents(pushc.failed)) \cap Range(pushc.event_batch) = {}
          /\ pushc.events_processed = Len(Stored(sink_calls)))

\* a batch was lost at the threshold, nothing is stored or counted, and the
\* event received next is alone in the batch
C29_Witness ==
    /\ Len(pushc.failed) = 1
    /\ pushc.failed[1].site = "threshold"
    /\ pushc.failed[1].batch /= <<>>
    /\ Len(pushc.event_batch) = 1
    /\ pushc.event_batch[1] \notin Range(pushc.failed[1].batch)
    /\ pushc.events_processed = 0
    /\ sink_calls = <<>>

====
